---- MODULE Spec2Model ----
(***************************************************************************)
(* A model of the ASR verifier (VerifyVisitor, asr_verify) and of the      *)
(* declaration-phase resolver's import machinery (SymbolTableVisitor) of   *)
(* src/libasr/asr_verify.cpp.                                              *)
(*                                                                         *)
(* The arena is the pair (tables, syms): every SymbolTable and every       *)
(* symbol node, addressed by its index; 0 is nullptr.  The verifier is a   *)
(* read-only walk, written here as operators that thread the visitor's     *)
(* fields through the walk in the order the code visits.                   *)
(***************************************************************************)
EXTENDS Integers, Sequences, FiniteSets, TLC

VARIABLES
    tables,          \* the SymbolTables of the arena
    syms,            \* the symbol nodes of the arena
    items,           \* TranslationUnit::m_items
    pc,              \* where the pipeline is: "resolve", "verify", "done"
    check_external,  \* asr_verify's mode (true: post-link)
    oob,             \* what an out-of-bounds read of Function::m_args yields
    overflow,        \* what the signed overflow of alignment_int - 1 yields
    vres,            \* the verifier's fields when asr_verify ended
    rs               \* the resolver's fields (SymbolTableVisitor)

vars == <<tables, syms, items, pc, check_external, oob, overflow, vres, rs>>

(***************************************************************************)
(* Bounds of the model.                                                    *)
(***************************************************************************)
MaxDeps == 2         \* longest stored dependency list that is enumerated
MaxCallArgs == 2     \* most argument slots of an enumerated call

\* A 64-bit counter, as its upper and its lower 32 bits: hi * 2^32 + lo
U64(hi, lo) == [hi |-> hi, lo |-> lo]

(***************************************************************************)
(* Names.  std::map<std::string, symbol_t*> iterates in the order of the   *)
(* keys; SortedNames lists every name of the model in that (ASCII) order.  *)
(***************************************************************************)
SortedNames ==
    << "@f@", "@g@", "T", "X", "a", "b", "bb", "c", "d", "dot", "e", "e1", "entry__lcompilers", "f", "f@gp",
       "f~genericprocedure", "g", "g@gp", "gb", "gp", "g~genericprocedure", "h", "k",
       "k@gp",
       "lcompilers__nameless_enum", "m", "m1", "m2", "m3", "n", "op", "p", "q",
       "r", "s", "s_main__lcompilers", "sm", "t", "t_main__lcompilers", "u", "v", "w", "x", "y", "z", "~add", "~assign", "~gp", "~~dot" >>

RECURSIVE SeqToSet(_)
SeqToSet(s) == IF s = <<>> THEN {} ELSE {Head(s)} \cup SeqToSet(Tail(s))

NoDup(s) == \A i, j \in 1..Len(s) : i # j => s[i] # s[j]

(***************************************************************************)
(* Types (ttype_t).  wrap lists the wrappers outside-in (Pointer,          *)
(* Allocatable, Array), base is the innermost type.                        *)
(***************************************************************************)
DefaultType ==
    [ wrap |-> <<>>, base |-> "Integer", phys |-> "DescriptorString",
      len_kind |-> "ExpressionLength", has_len |-> TRUE, len |-> 1,
      dim_start |-> FALSE, dim_length |-> FALSE, n_dims |-> 1,
      dim_call |-> 0, ref |-> 0, arg_types |-> 0 ]

Type(r) == r @@ DefaultType

NoType == Type([base |-> "none"])

(***************************************************************************)
(* Expressions and statements.                                             *)
(*   k = "null": nullptr.  A call's args are its argument slots: 0 is a    *)
(*   slot whose m_value is nullptr, -1 a constant, s > 0 the Var of s.     *)
(***************************************************************************)
DefaultExpr == [ k |-> "null", v |-> 0, args |-> <<>>, ty |-> NoType ]

Expr(r) == r @@ DefaultExpr

NullExpr == DefaultExpr

Var(s) == Expr([k |-> "Var", v |-> s])

IntegerConstant == Expr([k |-> "IntegerConstant", ty |-> DefaultType])

DefaultStmt ==
    [ k |-> "none", target |-> NullExpr, value |-> NullExpr, name |-> 0,
      args |-> <<>>, m |-> 0, realloc_lhs |-> FALSE ]

Stmt(r) == r @@ DefaultStmt

(***************************************************************************)
(* Symbol nodes (symbol_t) and symbol tables.                              *)
(***************************************************************************)
DefaultSym ==
    [ kind |-> "none", name |-> "", symtab |-> 0, parent_symtab |-> 0,
      deps |-> <<>>, body |-> <<>>, args |-> <<>>, return_var |-> 0,
      external |-> 0, module_name |-> "", original_name |-> "",
      storage |-> "Default", intent |-> "Local", presence |-> "Required",
      access |-> "Public", type |-> DefaultType, symbolic_value |-> NullExpr,
      value |-> NullExpr, procs |-> <<>>, proc |-> 0, self_argument |-> "",
      has_signature |-> TRUE, abi |-> "Source", type_declaration |-> 0,
      enum_value_type |-> "IntegerUnique", n_members |-> 0,
      has_type |-> TRUE, alignment |-> NullExpr ]

Sym(r) == r @@ DefaultSym

\* scope: name -> symbol, as a function on the names present
DefaultTable ==
    [ counter |-> U64(0, 0), parent |-> 0, owner |-> 0, scope |-> <<>> ]

Table(r) == r @@ DefaultTable

\* asr_owner of the TranslationUnit's table: the unit itself, which is no symbol
TU == -1

OwningKinds ==
    { "Program", "Module", "Function", "Struct", "Enum", "Union", "Block",
      "AssociateBlock", "Requirement", "Template" }

\* The arena the verifier reads
Arena == [tables |-> tables, syms |-> syms]

\* The table t and the symbol s of an arena ar
TabOf(ar, t) == IF t \in 1..Len(ar.tables) THEN ar.tables[t] ELSE DefaultTable

SymOf(ar, s) == IF s \in 1..Len(ar.syms) THEN ar.syms[s] ELSE DefaultSym

Tab(t) == TabOf(Arena, t)

SymAt(s) == SymOf(Arena, s)

\* SymbolTable::get_symbol: the local lookup, nullptr (0) on a miss
SymbolTable_get_symbol(ar, t, name) ==
    IF name \in DOMAIN TabOf(ar, t).scope THEN TabOf(ar, t).scope[name] ELSE 0

get_symbol(t, name) == SymbolTable_get_symbol(Arena, t, name)

\* SymbolTable::resolve_symbol: the nearest binding along the parent chain
RECURSIVE SymbolTable_resolve_symbol(_, _, _)
SymbolTable_resolve_symbol(ar, t, name) ==
    IF t = 0 THEN 0
    ELSE IF name \in DOMAIN TabOf(ar, t).scope THEN TabOf(ar, t).scope[name]
    ELSE SymbolTable_resolve_symbol(ar, TabOf(ar, t).parent, name)

resolve_symbol(t, name) == SymbolTable_resolve_symbol(Arena, t, name)

\* the names at the given positions of SortedNames, in that order
NamesAt(I) ==
    [k \in 1..Cardinality(I) |->
        SortedNames[CHOOSE i \in I : Cardinality({j \in I : j < i}) = k - 1]]

\* the keys of a std::map in the order the map iterates
KeysInOrder(keys) ==
    NamesAt({i \in 1..Len(SortedNames) : SortedNames[i] \in keys})

\* the keys of SymbolTable::get_scope(), in the order the map iterates
ScopeKeys(ar, t) == KeysInOrder(DOMAIN TabOf(ar, t).scope)

\* the entries of a scope under the given keys
ScopeEntries(scope, keys) == [i \in 1..Len(keys) |-> scope[keys[i]]]

\* SymbolTable::get_scope(): the entries in key order
ScopeSeq(t) == ScopeEntries(Tab(t).scope, ScopeKeys(Arena, t))

\* ASRUtils::symbol_name
symbol_name(s) == SymAt(s).name

\* ASRUtils::symbol_parent_symtab: m_symtab->parent of a symbol that owns a
\* table, m_parent_symtab of the others
ASRUtils_symbol_parent_symtab(ar, s) ==
    IF SymOf(ar, s).kind \in OwningKinds
    THEN TabOf(ar, SymOf(ar, s).symtab).parent
    ELSE SymOf(ar, s).parent_symtab

symbol_parent_symtab(s) == ASRUtils_symbol_parent_symtab(Arena, s)

\* ASRUtils::symbol_symtab: the table a symbol owns, or nullptr
symbol_symtab(s) == IF SymAt(s).kind \in OwningKinds THEN SymAt(s).symtab ELSE 0

\* ASRUtils::symbol_get_past_external: one step through an ExternalSymbol
ASRUtils_symbol_get_past_external(ar, s) ==
    IF SymOf(ar, s).kind = "ExternalSymbol" THEN SymOf(ar, s).external ELSE s

symbol_get_past_external(s) == ASRUtils_symbol_get_past_external(Arena, s)

\* ASRUtils::get_asr_owner: the symbol owning the table the symbol lives in,
\* nullptr when that table belongs to the TranslationUnit
get_asr_owner(s) ==
    LET owner == Tab(symbol_parent_symtab(s)).owner
    IN  IF owner > 0 THEN owner ELSE 0

\* ASRUtils::get_sym_module: the nearest enclosing Module, or nullptr
RECURSIVE ModuleOfTable(_, _)
ModuleOfTable(ar, t) ==
    IF t = 0 \/ TabOf(ar, t).parent = 0 THEN 0
    ELSE IF SymOf(ar, TabOf(ar, t).owner).kind = "Module" THEN TabOf(ar, t).owner
    ELSE ModuleOfTable(ar, TabOf(ar, t).parent)

ASRUtils_get_sym_module(ar, s) ==
    ModuleOfTable(ar, ASRUtils_symbol_parent_symtab(ar, s))

get_sym_module(s) == ASRUtils_get_sym_module(Arena, s)

\* ASRUtils::present(char** list, size_t n, name)
present(list, name) == \E i \in 1..Len(list) : list[i] = name


(***************************************************************************)
(* The verifier (class VerifyVisitor).  A visitor state st holds the       *)
(* visitor's fields; out is "ok" while the walk runs and names how it      *)
(* ended otherwise: "abort" (VerifyAbort), "exception" (another C++        *)
(* exception), "crash" (undefined behaviour that stopped the process).     *)
(***************************************************************************)
VerifyVisitor(ce) ==
    [ cur |-> 0,                \* current_symtab
      ce |-> ce,                \* check_external
      ids |-> {},               \* id_symtab_map (its keys)
      fdeps |-> <<>>,           \* function_dependencies
      mdeps |-> <<>>,           \* module_dependencies
      vdeps |-> <<>>,           \* variable_dependencies
      current_name |-> "",
      consts |-> {},            \* const_assigned
      ngsv |-> FALSE,           \* non_global_symbol_visited
      rvio |-> FALSE,           \* _return_var_or_intent_out
      pdims |-> FALSE,          \* _processing_dims
      cexpr |-> "null",         \* the kind of current_expr
      nerr |-> 0,               \* Error diagnostics emitted
      out |-> "ok",
      chk |-> {},               \* the scope checks visit_Var made
      pushed |-> {} ]           \* the calls that joined function_dependencies

\* ASRUtils::require_impl on a failed condition: an Error diagnostic, then
\* VerifyAbort
VerifyAbort(st) == [st EXCEPT !.out = "abort", !.nerr = @ + 1]

\* the require(cond, msg) macro
require(st, cond) ==
    IF st.out # "ok" THEN st ELSE IF cond THEN st ELSE VerifyAbort(st)

\* an assignment to a field of the visitor: a statement runs only while no
\* exception is in flight
assign(st, field, value) ==
    IF st.out # "ok" THEN st ELSE [st EXCEPT ![field] = value]

\* the counter as symtab_in_scope holds it, `unsigned int symtab_ID`: the
\* lower 32 bits, widened again for the comparison with s->counter
symtab_ID_of(counter) == U64(0, counter.lo)

RECURSIVE symtab_in_scope_walk(_, _, _)
symtab_in_scope_walk(s, symtab_ID, sym) ==
    IF s = 0 THEN FALSE
    ELSE IF Tab(s).counter = symtab_ID
        THEN get_symbol(s, symbol_name(sym)) = sym
        ELSE symtab_in_scope_walk(Tab(s).parent, symtab_ID, sym)

symtab_in_scope(symtab, sym) ==
    symtab_in_scope_walk(
        symtab, symtab_ID_of(Tab(symbol_parent_symtab(sym)).counter), sym)

\* require(symtab_in_scope(...), msg): a failed scope check has emitted its
\* own Error diagnostic before require adds one
require_in_scope(st, symtab, sym) ==
    IF st.out # "ok" THEN st
    ELSE IF symtab_in_scope(symtab, sym) THEN st
    ELSE VerifyAbort([st EXCEPT !.nerr = @ + 1])

\* require(symtab_in_scope(current_symtab, sym), msg)
require_in_current_scope(st, sym) == require_in_scope(st, st.cur, sym)

verify_unique_dependencies(st, deps) == require(st, NoDup(deps))

\* ---------------------------------------------------------------- types

OuterKind(ty) == IF ty.wrap = <<>> THEN ty.base ELSE Head(ty.wrap)

Inner(ty) == [ty EXCEPT !.wrap = Tail(@)]

is_allocatable(ty) == ty.wrap # <<>> /\ Head(ty.wrap) = "Allocatable"

is_pointer(ty) == ty.wrap # <<>> /\ Head(ty.wrap) = "Pointer"

is_character(ty) == ty.base = "String"

StringPhysicalTypes == {"DescriptorString", "CChar"}

\* the switch of visit_String on the physical type
String_physical_type(st, x) ==
    IF st.out # "ok" THEN st
    ELSE IF x.phys = "DescriptorString" \/ x.phys = "CChar"
        THEN require(st, IF x.has_len
                            THEN x.len_kind = "ExpressionLength"
                            ELSE x.len_kind \in
                                     {"AssumedLength", "DeferredLength",
                                      "ImplicitLength"})
        \* throw LCompilersException("PhysicalType not checked ...")
        ELSE [st EXCEPT !.out = "exception"]

\* an implicit length is met only below a StringPhysicalCast
String_implicit_length(st, x) ==
    IF x.len_kind = "ImplicitLength"
        THEN require(st, st.cexpr = "StringPhysicalCast")
        ELSE st

visit_String(st, x) ==
    String_implicit_length(
        String_physical_type(require(st, (~x.has_len) \/ x.len >= 0), x), x)

\* BaseWalkVisitor<VerifyVisitor>: the visit of a child node goes through the
\* visitor's dispatch on the node's class
RECURSIVE BaseWalkVisitor_visit(_, _, _)
visit_ttype(st, ty) == BaseWalkVisitor_visit(st, "ttype", ty)
visit_expr(st, b) == BaseWalkVisitor_visit(st, "expr", b)
visit_stmt(st, x) == BaseWalkVisitor_visit(st, "stmt", x)
visit_symbol(st, x) == BaseWalkVisitor_visit(st, "symbol", x)

visit_dimension(st, x) ==
    IF x.dim_call = 0 THEN st
    ELSE visit_expr(st, Expr([k |-> "FunctionCall", v |-> x.dim_call,
                              ty |-> DefaultType]))

visit_Array(st, x) ==
    assign(
        visit_dimension(
            assign(
                require(
                    visit_ttype(
                        require(st, OuterKind(Inner(x)) # "Allocatable"),
                        Inner(x)),
                    x.n_dims # 0 /\ OuterKind(Inner(x)) # "Array"),
                "pdims", TRUE),
            x),
        "pdims", FALSE)

visit_Pointer(st, x) ==
    visit_ttype(
        require(st, /\ OuterKind(Inner(x)) # "Allocatable"
                    /\ OuterKind(Inner(x)) = "Array"
                           => ~x.dim_start /\ ~x.dim_length),
        Inner(x))

visit_Allocatable(st, x) ==
    visit_ttype(
        require(st, /\ OuterKind(Inner(x)) # "Pointer"
                    /\ OuterKind(Inner(x)) # "Allocatable"
                    /\ (\E i \in 1..Len(Inner(x).wrap) :
                            Inner(x).wrap[i] = "Array") => ~x.dim_length),
        Inner(x))

\* require(non_global_symbol_visited == false, msg)
require_nonscoped(st) == require(st, st.ngsv = FALSE)

\* verify_nonscoped_ttype for each argument type and the return type: the
\* types of a signature are not tied to a scope
visit_FunctionType(st, x) == require_nonscoped(assign(st, "ngsv", FALSE))

\* BaseWalkVisitor::visit_ttype: the dispatch on the type's kind
BaseWalkVisitor_visit_ttype(st, ty) ==
    IF st.out # "ok" THEN st
    ELSE CASE OuterKind(ty) = "Pointer" -> visit_Pointer(st, ty)
           [] OuterKind(ty) = "Allocatable" -> visit_Allocatable(st, ty)
           [] OuterKind(ty) = "Array" -> visit_Array(st, ty)
           [] OuterKind(ty) = "String" -> visit_String(st, ty)
           [] OuterKind(ty) = "FunctionType" -> visit_FunctionType(st, ty)
           [] OTHER -> st
\* ---------------------------------------------------------- expressions

\* the symbol visit_Var inspects: past the ExternalSymbol when check_external
Var_symbol(st, x) ==
    IF st.ce THEN symbol_get_past_external(x.v) ELSE x.v

\* non_global_symbol_visited after a Var
Var_non_global(st, x, s) ==
    IF st.out # "ok" THEN st
    ELSE IF s = 0
        THEN [st EXCEPT !.out = "crash"]               \* is_a(*s) on nullptr
        ELSE [st EXCEPT !.ngsv = ~(SymAt(s).kind = "Variable"
                                   /\ SymAt(x.v).kind = "ExternalSymbol")]

\* the scope check visit_Var is about to make, kept for the record
Var_scope_check(st, sym) ==
    IF st.out # "ok" THEN st
    ELSE [st EXCEPT !.chk = @ \cup
             {[symtab |-> st.cur, sym |-> sym,
               res |-> symtab_in_scope(st.cur, sym)]}]

\* variable_dependencies.push_back(name) unless it is the current name
Var_dependency(st, name) ==
    IF st.out # "ok" \/ name = st.current_name THEN st
    ELSE [st EXCEPT !.vdeps = Append(@, name)]

visit_Var(st, x) ==
    Var_dependency(
        require_in_current_scope(
            Var_scope_check(
                require(
                    Var_non_global(require(st, x.v # 0), x, Var_symbol(st, x)),
                    SymAt(Var_symbol(st, x)).kind \in
                        {"Variable", "Function", "Enum", "ExternalSymbol"}),
                x.v),
            x.v),
        symbol_name(x.v))

\* the argument slot as an expression (0: m_value is nullptr)
ArgValue(a) == IF a = 0 THEN NullExpr ELSE IF a < 0 THEN IntegerConstant ELSE Var(a)

RECURSIVE verify_args_required(_, _, _, _)
verify_args_required(st, func, args, i) ==
    IF st.out # "ok" \/ i > Len(args) THEN st
    ELSE IF i > Len(SymAt(func).args)
        \* func->m_args[i] is read past the end of the formals
        THEN CASE oob = "crash" -> [st EXCEPT !.out = "crash"]
               [] oob = "required" ->
                    verify_args_required(require(st, args[i] # 0), func, args, i + 1)
               [] OTHER -> verify_args_required(st, func, args, i + 1)
        ELSE verify_args_required(
                 require(st, ~(args[i] = 0
                               /\ SymAt(SymAt(func).args[i]).kind = "Variable"
                               /\ SymAt(SymAt(func).args[i]).presence
                                      # "Optional")),
                 func, args, i + 1)

RECURSIVE verify_args_visit(_, _, _)
verify_args_visit(st, args, i) ==
    IF st.out # "ok" \/ i > Len(args) THEN st
    ELSE verify_args_visit(
             IF args[i] # 0 THEN visit_expr(st, ArgValue(args[i])) ELSE st,
             args, i + 1)

\* the callee of verify_args, when it is a Function
verify_args_func(func_sym) ==
    func_sym # 0 /\ SymAt(func_sym).kind = "Function"

verify_args(st, name, args) ==
    verify_args_visit(
        IF verify_args_func(symbol_get_past_external(name))
            THEN verify_args_required(
                     st, symbol_get_past_external(name), args, 1)
            ELSE st,
        args, 1)

\* the test of visit_SubroutineCall and visit_FunctionCall that decides
\* whether the callee's name joins function_dependencies
pushes_function_dependency(cur, name) ==
    /\ Tab(cur).owner > 0
    /\ Tab(cur).counter # Tab(symbol_parent_symtab(name)).counter
    /\ SymAt(name).kind # "ExternalSymbol"
    /\ SymAt(name).kind # "Variable"
    /\ SymAt(Tab(cur).owner).kind \in {"AssociateBlock", "Block"}
           => Tab(Tab(cur).parent).counter
                  # Tab(symbol_parent_symtab(name)).counter

\* temp_scope after that test
temp_scope_of(cur, name) ==
    IF /\ Tab(cur).owner > 0
       /\ Tab(cur).counter # Tab(symbol_parent_symtab(name)).counter
       /\ SymAt(name).kind # "ExternalSymbol"
       /\ SymAt(name).kind # "Variable"
       /\ SymAt(Tab(cur).owner).kind \in {"AssociateBlock", "Block"}
        THEN Tab(cur).parent
        ELSE cur

\* the module a call through an ExternalSymbol makes the Module depend on
pushes_module_dependency(name) ==
    /\ SymAt(name).kind = "ExternalSymbol"
    /\ SymAt(name).external # 0
    /\ SymAt(get_asr_owner(SymAt(name).external)).kind = "Module"

push_dependencies(st, name) ==
    IF st.out = "ok" /\ pushes_function_dependency(st.cur, name)
        THEN [st EXCEPT !.fdeps = Append(@, symbol_name(name)),
                        !.pushed = @ \cup {[cur |-> st.cur, name |-> name]}]
        ELSE st

push_module_dependency(st, name) ==
    IF st.out = "ok" /\ pushes_module_dependency(name)
        THEN [st EXCEPT !.mdeps = Append(@, SymAt(name).module_name)]
        ELSE st

\* variable_dependencies.push_back(name of the callee)
FunctionCall_dependency(st, name) ==
    IF st.out # "ok" THEN st ELSE [st EXCEPT !.vdeps = Append(@, name)]

\* a call in the dimensions of a return variable or intent(out) argument
\* joins function_dependencies
FunctionCall_in_dims(st, x) ==
    IF /\ st.out = "ok"
       /\ st.rvio /\ st.pdims
       /\ Tab(temp_scope_of(st.cur, x.v)).counter
              # Tab(symbol_parent_symtab(x.v)).counter
       /\ SymAt(x.v).kind # "ExternalSymbol"
        THEN [st EXCEPT !.fdeps = Append(@, symbol_name(x.v)),
                        !.pushed = @ \cup {[cur |-> st.cur, name |-> x.v]}]
        ELSE st

\* the requires of visit_FunctionCall on the callee fn
FunctionCall_callee(st, fn) ==
    require(st,
        /\ st.ce => \/ SymAt(fn).kind = "Function"
                    \/ (SymAt(fn).kind = "Variable"
                        /\ SymAt(fn).type.base = "FunctionType")
                    \/ SymAt(fn).kind = "StructMethodDeclaration"
        /\ (fn # 0 /\ SymAt(fn).kind = "Function")
               => SymAt(fn).return_var # 0)

visit_FunctionCall(st, x) ==
    visit_ttype(
        verify_args(
            FunctionCall_callee(
                require_in_current_scope(
                    push_module_dependency(
                        FunctionCall_in_dims(
                            push_dependencies(
                                FunctionCall_dependency(
                                    require(st, x.v # 0), symbol_name(x.v)),
                                x.v),
                            x),
                        x.v),
                    x.v),
                symbol_get_past_external(x.v)),
            x.v, x.args),
        x.ty)

\* the switch of BaseVisitor::visit_expr on the expression's class
VerifyVisitor_visit_expr_class(st, b) ==
    CASE b.k = "Var" -> visit_Var(st, b)
      [] b.k = "FunctionCall" -> visit_FunctionCall(st, b)
      [] b.k = "IntegerConstant" -> visit_ttype(st, b.ty)
      [] OTHER -> st

\* VerifyVisitor::visit_expr: current_expr is the expression for the time of
\* its visit
VerifyVisitor_visit_expr(st, b) ==
    IF st.out # "ok" THEN st
    ELSE assign(VerifyVisitor_visit_expr_class([st EXCEPT !.cexpr = b.k], b),
                "cexpr", st.cexpr)

\* ----------------------------------------------------------- statements

RECURSIVE visit_stmts(_, _, _)
visit_stmts(st, body, i) ==
    IF st.out # "ok" \/ i > Len(body) THEN st
    ELSE visit_stmts(visit_stmt(st, body[i]), body, i + 1)

\* the target of an Assignment is a Var of a Variable
Assignment_is_variable(x, target_sym) ==
    /\ x.target.k = "Var"
    /\ target_sym # 0
    /\ SymAt(target_sym).kind = "Variable"

Assignment_is_target_const(x, target_sym) ==
    /\ Assignment_is_variable(x, target_sym)
    /\ SymAt(target_sym).storage = "Parameter"

\* the key of const_assigned: the current table's counter and the name
Assignment_key(st, x) ==
    <<Tab(st.cur).counter, symbol_name(x.target.v)>>

\* the requires of visit_Assignment on the target
Assignment_target(st, x, target_sym) ==
    require(st,
        /\ Assignment_is_variable(x, target_sym)
               => SymAt(target_sym).intent # "In"
        /\ Assignment_is_target_const(x, target_sym)
               => Assignment_key(st, x) \notin st.consts)

\* const_assigned.insert(key)
Assignment_const_assigned(st, x, target_sym) ==
    IF st.out = "ok" /\ Assignment_is_target_const(x, target_sym)
        THEN [st EXCEPT !.consts = @ \cup {Assignment_key(st, x)}]
        ELSE st

Assignment_realloc_lhs(st, x, target_sym) ==
    require(st, (st.ce /\ x.realloc_lhs)
                    => /\ x.target.k = "Var"
                       /\ is_allocatable(SymAt(target_sym).type))

visit_Assignment(st, x) ==
    \* BaseWalkVisitor::visit_Assignment
    visit_expr(
        visit_expr(
            Assignment_realloc_lhs(
                Assignment_const_assigned(
                    Assignment_target(
                        st, x, symbol_get_past_external(x.target.v)),
                    x, symbol_get_past_external(x.target.v)),
                x, symbol_get_past_external(x.target.v)),
            x.target),
        x.value)

visit_BlockCall(st, x) ==
    assign(
        visit_stmts(
            assign(require_in_current_scope(require(st, x.m # 0), x.m),
                   "cur", SymAt(x.m).symtab),
            SymAt(x.m).body, 1),
        "cur", st.cur)

visit_AssociateBlockCall(st, x) == require_in_current_scope(st, x.m)

\* the requires of visit_SubroutineCall on the callee s
SubroutineCall_callee(st, s) ==
    require(st, st.ce =>
        IF SymAt(s).kind = "Variable"
            THEN /\ SymAt(s).type_declaration # 0
                 /\ SymAt(symbol_get_past_external(
                        SymAt(s).type_declaration)).kind = "Function"
                 /\ SymAt(s).type.base = "FunctionType"
            ELSE SymAt(s).kind \in {"Function", "StructMethodDeclaration"})

visit_SubroutineCall(st, x) ==
    verify_args(
        push_module_dependency(
            push_dependencies(
                SubroutineCall_callee(
                    require_in_current_scope(st, x.name),
                    symbol_get_past_external(x.name)),
                x.name),
            x.name),
        x.name, x.args)

\* BaseWalkVisitor::visit_stmt: the dispatch on the statement's kind
BaseWalkVisitor_visit_stmt(st, x) ==
    IF st.out # "ok" THEN st
    ELSE CASE x.k = "Assignment" -> visit_Assignment(st, x)
           [] x.k = "BlockCall" -> visit_BlockCall(st, x)
           [] x.k = "AssociateBlockCall" -> visit_AssociateBlockCall(st, x)
           [] x.k = "SubroutineCall" -> visit_SubroutineCall(st, x)
           [] OTHER -> st
\* ------------------------------------------------- symbols without a table

visit_GenericProcedure(st, x) ==
    require(st, SymAt(x).parent_symtab # 0)

visit_CustomOperator(st, x) ==
    require(st, SymAt(x).parent_symtab # 0)

\* the self argument of a method is one of the formals of its procedure
has_self_argument(formals, name) ==
    \E i \in 1..Len(formals) : symbol_name(formals[i]) = name

visit_StructMethodDeclaration(st, x) ==
    require(st,
        /\ SymAt(x).proc # 0
        /\ SymAt(x).parent_symtab # 0
        /\ get_symbol(SymAt(x).parent_symtab, SymAt(x).name) # 0
        /\ get_symbol(SymAt(x).parent_symtab, SymAt(x).name) = x
        /\ Tab(SymAt(x).parent_symtab).counter \in st.ids
        /\ SymAt(x).self_argument # ""
               => has_self_argument(SymAt(SymAt(x).proc).args,
                                    SymAt(x).self_argument))

is_value_constant(e) == e.k = "IntegerConstant"

\* the owner of a table is a symbol of the given kind
owner_is(symtab, kind) ==
    Tab(symtab).owner > 0 /\ SymAt(Tab(symtab).owner).kind = kind

\* the requires of visit_Variable on the Variable v and its table
Variable_in_symtab(st, x, v) ==
    require(st,
        /\ v.parent_symtab # 0
        /\ get_symbol(v.parent_symtab, v.name) # 0
        /\ get_symbol(v.parent_symtab, v.name) = x
        /\ st.cur = v.parent_symtab
        /\ Tab(v.parent_symtab).counter \in st.ids
        /\ (/\ Tab(v.parent_symtab).parent # 0
            /\ ~owner_is(v.parent_symtab, "Module")
            /\ ~owner_is(v.parent_symtab, "Struct"))
               => \/ (v.symbolic_value.k = "null" /\ v.value.k = "null")
                  \/ (v.symbolic_value.k # "null" /\ v.value.k # "null")
                  \/ (v.symbolic_value.k # "null"
                      /\ is_value_constant(v.symbolic_value)))

\* the requires of visit_Variable on a Variable of type String
Variable_string(st, v) ==
    require(st, is_character(v.type) =>
        /\ v.type.len_kind # "ImplicitLength"
        /\ v.type.len_kind = "DeferredLength"
               => is_allocatable(v.type) \/ is_pointer(v.type)
        /\ (/\ v.abi = "BindC" /\ v.intent # "Local"
            /\ v.type.wrap = <<>> /\ v.type.phys = "CChar")
               => /\ v.type.len_kind = "ExpressionLength"
                  /\ v.type.has_len /\ v.type.len = 1
        /\ v.type.phys = "CChar" => v.intent # "Local")

visit_expr_if_present(st, e) ==
    IF e.k # "null" THEN visit_expr(st, e) ELSE st

\* the children of a Variable: both values, then the type with
\* _return_var_or_intent_out set for its time
Variable_children(st, v) ==
    assign(
        visit_ttype(
            assign(
                visit_expr_if_present(
                    visit_expr_if_present(st, v.symbolic_value), v.value),
                "rvio", v.intent \in {"Out", "InOut", "ReturnVar"}),
            v.type),
        "rvio", FALSE)

\* the stored dependencies of a Variable are the names its walk collected
Variable_dependencies(st, v) ==
    require(st,
        /\ \A i \in 1..Len(v.deps) : present(st.vdeps, v.deps[i])
        /\ \A i \in 1..Len(st.vdeps) : present(v.deps, st.vdeps[i])
        /\ v.type.base = "StructType" => v.type_declaration # 0)

Variable_walk(st, x, v) ==
    assign(
        Variable_dependencies(
            verify_unique_dependencies(
                Variable_children(
                    Variable_string(
                        Variable_in_symtab(
                            [st EXCEPT !.current_name = v.name,
                                       !.vdeps = <<>>],
                            x, v),
                        v),
                    v),
                v.deps),
            v),
        "current_name", st.current_name)

visit_Variable(st, x) == Variable_walk(st, x, SymAt(x))

\* the target of an ExternalSymbol is a symbol of its module's own table
by_module(m, asr_owner_sym) == m # 0 /\ m = asr_owner_sym

is_valid_owner(m, asr_owner_sym) ==
    \/ by_module(m, asr_owner_sym)
    \/ SymAt(asr_owner_sym).kind \in {"Struct", "Enum", "Function", "Union"}

asr_owner_name(m, asr_owner_sym) ==
    IF by_module(m, asr_owner_sym) THEN SymAt(m).name
    ELSE IF is_valid_owner(m, asr_owner_sym) THEN SymAt(asr_owner_sym).name
    ELSE ""

\* x.m_module_name, or the name of what it resolves to from the current table
x_m_module_name(r, e) ==
    IF r # 0 THEN symbol_name(symbol_get_past_external(r)) ELSE e.module_name

\* the symbol found under the original name in the owner's table
ExternalSymbol_found(m, asr_owner_sym, e) ==
    IF by_module(m, asr_owner_sym)
        THEN get_symbol(SymAt(m).symtab, e.original_name)
        ELSE resolve_symbol(SymAt(asr_owner_sym).symtab, e.original_name)

\* is_a<Struct_t>(*asr_owner_sym) when the target's table belongs to no
\* symbol
ExternalSymbol_owner(st, m, asr_owner_sym) ==
    IF st.out = "ok" /\ ~by_module(m, asr_owner_sym) /\ asr_owner_sym = 0
        THEN [st EXCEPT !.out = "crash"]
        ELSE st

ExternalSymbol_target(st, e, m, asr_owner_sym) ==
    require(st,
        /\ is_valid_owner(m, asr_owner_sym)
        /\ x_m_module_name(resolve_symbol(st.cur, e.module_name), e)
               = asr_owner_name(m, asr_owner_sym)
        /\ ExternalSymbol_found(m, asr_owner_sym, e) # 0
        /\ ExternalSymbol_found(m, asr_owner_sym, e) = e.external)

ExternalSymbol_walk(st, e, m, asr_owner_sym) ==
    ExternalSymbol_target(
        ExternalSymbol_owner(
            require(st, /\ e.external # 0
                        /\ SymAt(e.external).kind # "ExternalSymbol"
                        /\ e.original_name = symbol_name(e.external)),
            m, asr_owner_sym),
        e, m, asr_owner_sym)

visit_ExternalSymbol(st, x) ==
    IF ~st.ce THEN st
    ELSE ExternalSymbol_walk(st, SymAt(x),
                             get_sym_module(SymAt(x).external),
                             get_asr_owner(SymAt(x).external))

\* ---------------------------------------------------- symbols with a table

RECURSIVE visit_symbols(_, _, _)
visit_symbols(st, scope, i) ==
    IF st.out # "ok" \/ i > Len(scope) THEN st
    ELSE visit_symbols(visit_symbol(st, scope[i]), scope, i + 1)

\* the requires every table-owning visitor makes of its table, but for the
\* counter: present, the right parent, owned by x, and back
owns_symtab(st, x, parent_symtab) ==
    require(st,
        /\ SymAt(x).symtab # 0
        /\ Tab(SymAt(x).symtab).parent = parent_symtab
        /\ Tab(SymAt(x).symtab).owner = x
        /\ symbol_symtab(Tab(SymAt(x).symtab).owner) = SymAt(x).symtab)

\* a walk that takes any counter for new
counter_never_compared(st, symtab) == st

\* require(id_symtab_map.find(x.m_symtab->counter) == id_symtab_map.end())
counter_is_unique(st, symtab) == require(st, Tab(symtab).counter \notin st.ids)

id_symtab_map_insert(st, symtab) ==
    IF st.out # "ok" THEN st
    ELSE [st EXCEPT !.ids = @ \cup {Tab(symtab).counter}]

\* the opening of a table-owning visitor: current_symtab is the symbol's
\* table, which it owns, under a counter no table before it had
enter_symtab(st, x, symtab) ==
    id_symtab_map_insert(
        counter_is_unique(
            owns_symtab([st EXCEPT !.cur = symtab], x, st.cur), symtab),
        symtab)

visit_Program(st, x) ==
    assign(
        visit_stmts(
            visit_symbols(
                id_symtab_map_insert(
                    counter_is_unique(
                        require(
                            owns_symtab([st EXCEPT !.cur = SymAt(x).symtab],
                                        x, st.cur),
                            Tab(Tab(SymAt(x).symtab).parent).parent = 0),
                        SymAt(x).symtab),
                    SymAt(x).symtab),
                ScopeSeq(SymAt(x).symtab), 1),
            SymAt(x).body, 1),
        "cur", st.cur)

visit_AssociateBlock(st, x) ==
    assign(
        visit_stmts(
            visit_symbols(enter_symtab(st, x, SymAt(x).symtab),
                          ScopeSeq(SymAt(x).symtab), 1),
            SymAt(x).body, 1),
        "cur", st.cur)

visit_Block(st, x) ==
    assign(
        visit_stmts(
            visit_symbols(enter_symtab(st, x, SymAt(x).symtab),
                          ScopeSeq(SymAt(x).symtab), 1),
            SymAt(x).body, 1),
        "cur", st.cur)

visit_Requirement(st, x) ==
    assign(
        visit_symbols(enter_symtab(st, x, SymAt(x).symtab),
                      ScopeSeq(SymAt(x).symtab), 1),
        "cur", st.cur)

visit_Template(st, x) ==
    assign(
        visit_symbols(enter_symtab(st, x, SymAt(x).symtab),
                      ScopeSeq(SymAt(x).symtab), 1),
        "cur", st.cur)

valid_name(name) == name # ""

\* visit_expr of each of Function::m_args, which are Vars
RECURSIVE visit_formals(_, _, _)
visit_formals(st, args, i) ==
    IF st.out # "ok" \/ i > Len(args) THEN st
    ELSE visit_formals(visit_expr(st, Var(args[i])), args, i + 1)

\* a walk that never looks for the accumulated module names
module_dependencies_unchecked(st, x) == st

\* the loop of visit_Module over module_dependencies
module_dependencies_stored(st, x) ==
    require(st, \A i \in 1..Len(st.mdeps) :
                   st.mdeps[i] # SymAt(x).name
                       => present(SymAt(x).deps, st.mdeps[i]))

visit_Module(st, x) ==
    assign(
        module_dependencies_stored(
            require(
                verify_unique_dependencies(
                    visit_symbols(
                        id_symtab_map_insert(
                            counter_is_unique(
                                require(
                                    owns_symtab(
                                        [st EXCEPT !.mdeps = <<>>,
                                                   !.cur = SymAt(x).symtab],
                                        x, st.cur),
                                    Tab(Tab(SymAt(x).symtab).parent).parent
                                        = 0),
                                SymAt(x).symtab),
                            SymAt(x).symtab),
                        ScopeSeq(SymAt(x).symtab), 1),
                    SymAt(x).deps),
                \A i \in 1..Len(SymAt(x).deps) :
                    valid_name(SymAt(x).deps[i])),
            x),
        "cur", st.cur)

\* a walk that lets any stored name pass
stored_dependencies_unchecked(st, deps) == st

\* the loop of visit_Function that looks for unnecessary dependencies
stored_dependencies_found(st, deps) ==
    require(st, \A i \in 1..Len(deps) : present(st.fdeps, deps[i]))

\* the loop of visit_Function over function_dependencies
found_dependencies_stored(st, deps) ==
    require(st, \A i \in 1..Len(st.fdeps) : present(deps, st.fdeps[i]))

\* the opening of visit_Function: an empty function_dependencies and the
\* Function's table, with the signature the Function must have
Function_enter(st, x, f) ==
    id_symtab_map_insert(
        require(
            counter_is_unique(
                owns_symtab([st EXCEPT !.fdeps = <<>>, !.cur = f.symtab],
                            x, st.cur),
                f.symtab),
            f.has_signature),
        f.symtab)

visit_return_var(st, f) ==
    IF f.return_var # 0 THEN visit_expr(st, Var(f.return_var)) ELSE st

\* the children of a Function: symbols, signature, arguments, body and
\* return variable
Function_children(st, f) ==
    visit_return_var(
        visit_stmts(
            visit_formals(
                visit_ttype(visit_symbols(st, ScopeSeq(f.symtab), 1), f.type),
                f.args, 1),
            f.body, 1),
        f)

\* the stored dependencies of a Function against the ones its walk found
Function_dependencies(st, f) ==
    require(
        found_dependencies_stored(
            stored_dependencies_found(
                require(
                    verify_unique_dependencies(st, f.deps),
                    \A i \in 1..Len(f.deps) :
                        resolve_symbol(Tab(f.symtab).parent, f.deps[i]) # 0),
                f.deps),
            f.deps),
        f.type.arg_types = Len(f.args))

Function_walk(st, x, f) ==
    assign(
        assign(
            visit_ttype(
                Function_dependencies(
                    Function_children(Function_enter(st, x, f), f), f),
                f.type),
            "cur", st.cur),
        \* function_dependencies = function_dependencies_copy
        "fdeps", st.fdeps)

visit_Function(st, x) == Function_walk(st, x, SymAt(x))

\* the members visit_UserDefinedType looks no further at
member_skipped(a) ==
    SymAt(a).kind \in
        {"StructMethodDeclaration", "GenericProcedure", "Struct", "Union",
         "ExternalSymbol", "CustomOperator"}

\* the type of a member, past a pointer
member_var_type(a) ==
    IF is_pointer(SymAt(a).type) THEN Inner(SymAt(a).type) ELSE SymAt(a).type

\* a member whose enum or union type is declared outside the current table
member_outside(a, current_symtab) ==
    /\ OuterKind(member_var_type(a)) \in {"EnumType", "UnionType"}
    /\ symbol_parent_symtab(member_var_type(a).ref) # current_symtab

\* struct_dependencies after a Variable member
member_dependencies(sd, a, current_symtab) ==
    (IF SymAt(a).kind = "Variable" /\ SymAt(a).type_declaration # 0
         THEN Append(sd, symbol_name(SymAt(a).type_declaration))
         ELSE sd)
    \o (IF member_outside(a, current_symtab)
            THEN <<symbol_name(member_var_type(a).ref)>>
            ELSE <<>>)

member_declared(st, x, a) ==
    require(st, member_outside(a, st.cur)
                    => present(SymAt(x).deps,
                               symbol_name(member_var_type(a).ref)))

\* the loop of visit_UserDefinedType over the members; sd is
\* struct_dependencies
RECURSIVE visit_members(_, _, _, _, _)
RECURSIVE visit_member(_, _, _, _, _)
visit_members(st, sd, x, scope, i) ==
    IF st.out # "ok" \/ i > Len(scope) THEN [st |-> st, sd |-> sd]
    ELSE visit_member(visit_symbol(st, scope[i]), sd, x, scope, i)

\* the rest of the loop's body, after the member's own visit
visit_member(st, sd, x, scope, i) ==
    IF st.out # "ok" THEN [st |-> st, sd |-> sd]
    ELSE IF member_skipped(scope[i])
        THEN visit_members(st, sd, x, scope, i + 1)
        ELSE visit_members(member_declared(st, x, scope[i]),
                           member_dependencies(sd, scope[i], st.cur),
                           x, scope, i + 1)

\* the stored dependencies of the type against struct_dependencies
UserDefinedType_dependencies(r, deps) ==
    verify_unique_dependencies(
        require(r.st, \A i \in 1..Len(deps) : present(r.sd, deps[i])),
        deps)

visit_UserDefinedType(st, x) ==
    assign(
        UserDefinedType_dependencies(
            visit_members(enter_symtab(st, x, SymAt(x).symtab), <<>>, x,
                          ScopeSeq(SymAt(x).symtab), 1),
            SymAt(x).deps),
        "cur", st.cur)

\* ASRUtils::expr_value: the compile-time value of an expression, nullptr
\* when it has none
expr_value(e) ==
    CASE e.k \in {"IntegerConstant", "RealConstant"} -> e
      [] e.k = "Var" -> SymAt(e.v).value
      [] OTHER -> NullExpr

\* ASRUtils::extract_value into an int64_t succeeds on an integer constant
extract_value(e) == e.k = "IntegerConstant"

\* An int64_t is the set of the positions of its one bits, two's complement
Bits64 == 0..63

\* the value extract_value stores: IntegerConstant::m_n
IntegerConstant_n(e) == IF "n" \in DOMAIN e THEN e.n ELSE {}

LowestBit(n) == CHOOSE i \in n : \A j \in n : i <= j

\* alignment_int - 1: the lowest one bit goes and the zero bits below it
\* come; 0 - 1 is all ones
alignment_minus_one(n) ==
    IF n = {} THEN Bits64
    ELSE (n \ {LowestBit(n)}) \cup { i \in Bits64 : i < LowestBit(n) }

\* alignment_int != 0 && (alignment_int & (alignment_int - 1)) == 0
is_power_of_two(n) == n # {} /\ n \cap alignment_minus_one(n) = {}

\* the last require of visit_Struct; INT64_MIN - 1 overflows, which is
\* undefined: the subtraction wraps or the process stops
Struct_alignment_int(st, n) ==
    IF st.out # "ok" THEN st
    ELSE IF n = {63} /\ overflow = "crash" THEN [st EXCEPT !.out = "crash"]
    ELSE require(st, is_power_of_two(n))

\* the requires on the value of the alignment expression
Struct_alignment(st, aligned_expr_value) ==
    Struct_alignment_int(
        require(st, /\ aligned_expr_value.k # "null"
                    /\ extract_value(aligned_expr_value)),
        IntegerConstant_n(aligned_expr_value))

visit_Struct(st, x) ==
    IF SymAt(x).alignment.k = "null" THEN visit_UserDefinedType(st, x)
    ELSE Struct_alignment(visit_UserDefinedType(st, x),
                          expr_value(SymAt(x).alignment))

visit_Union(st, x) == visit_UserDefinedType(st, x)

\* the keys of value2count: the enumerators' values
EnumValues(x) ==
    { IF is_value_constant(
             SymAt(Tab(SymAt(x).symtab).scope[n]).symbolic_value)
          THEN SymAt(Tab(SymAt(x).symtab).scope[n]).symbolic_value.v
          ELSE -1 :
          n \in DOMAIN Tab(SymAt(x).symtab).scope }

\* the enumerators agree with the Enum's m_enum_value_type
is_enumtype_correct(e, value2count) ==
    CASE e.enum_value_type = "IntegerConsecutiveFromZero" ->
             /\ e.type.base = "Integer"
             /\ Cardinality(value2count) = e.n_members
             /\ value2count = 0..(Cardinality(value2count) - 1)
             /\ 0 \in value2count
      [] e.enum_value_type = "IntegerNotUnique" ->
             e.type.base = "Integer" /\ Cardinality(value2count) # e.n_members
      [] e.enum_value_type = "IntegerUnique" ->
             e.type.base = "Integer" /\ Cardinality(value2count) = e.n_members
      [] e.enum_value_type = "NonInteger" -> e.type.base # "Integer"
      [] OTHER -> FALSE

\* every enumerator has a value of the Enum's type
Enum_members_typed(e, members) ==
    \A i \in 1..Len(members) :
        /\ SymAt(members[i]).symbolic_value.k # "null"
        /\ SymAt(members[i]).type.base = e.type.base

Enum_walk(st, x, e) ==
    require(visit_UserDefinedType(st, x),
            /\ e.has_type
            /\ Enum_members_typed(e, ScopeSeq(e.symtab))
            /\ is_enumtype_correct(e, EnumValues(x)))

visit_Enum(st, x) == Enum_walk(st, x, SymAt(x))

\* BaseWalkVisitor::visit_symbol: the dispatch on the symbol's kind
BaseWalkVisitor_visit_symbol(st, x) ==
    IF st.out # "ok" THEN st
    ELSE CASE SymAt(x).kind = "Program" -> visit_Program(st, x)
           [] SymAt(x).kind = "Module" -> visit_Module(st, x)
           [] SymAt(x).kind = "Function" -> visit_Function(st, x)
           [] SymAt(x).kind = "Struct" -> visit_Struct(st, x)
           [] SymAt(x).kind = "Enum" -> visit_Enum(st, x)
           [] SymAt(x).kind = "Union" -> visit_Union(st, x)
           [] SymAt(x).kind = "Block" -> visit_Block(st, x)
           [] SymAt(x).kind = "AssociateBlock" -> visit_AssociateBlock(st, x)
           [] SymAt(x).kind = "Requirement" -> visit_Requirement(st, x)
           [] SymAt(x).kind = "Template" -> visit_Template(st, x)
           [] SymAt(x).kind = "Variable" -> visit_Variable(st, x)
           [] SymAt(x).kind = "GenericProcedure" -> visit_GenericProcedure(st, x)
           [] SymAt(x).kind = "CustomOperator" -> visit_CustomOperator(st, x)
           [] SymAt(x).kind = "StructMethodDeclaration" ->
                  visit_StructMethodDeclaration(st, x)
           [] SymAt(x).kind = "ExternalSymbol" -> visit_ExternalSymbol(st, x)
           [] OTHER -> st

BaseWalkVisitor_visit(st, node, x) ==
    CASE node = "ttype" -> BaseWalkVisitor_visit_ttype(st, x)
      [] node = "expr" -> VerifyVisitor_visit_expr(st, x)
      [] node = "stmt" -> BaseWalkVisitor_visit_stmt(st, x)
      [] node = "symbol" -> BaseWalkVisitor_visit_symbol(st, x)

\* the table of the TranslationUnit
GlobalScope == 1

visit_TranslationUnit(st) ==
    assign(
        visit_stmts(
            visit_symbols(
                id_symtab_map_insert(
                    require(
                        counter_is_unique(
                            require([st EXCEPT !.cur = GlobalScope],
                                    Tab(GlobalScope).parent = 0),
                            GlobalScope),
                        Tab(GlobalScope).owner = TU),
                    GlobalScope),
                ScopeSeq(GlobalScope), 1),
            items, 1),
        "cur", 0)

\* asr_verify's walk: the visitor as the walk leaves it
asr_verify_walk(ce) == visit_TranslationUnit(VerifyVisitor(ce))

\* what asr_verify's caller gets: true, false, or no return at all
asr_verify_result(st) ==
    CASE st.out = "ok" -> "true"
      [] st.out = "abort" -> "false"      \* catch (VerifyAbort)
      [] OTHER -> st.out                   \* nothing else is caught

(***************************************************************************)
(* The resolver (class SymbolTableVisitor).  A visitor state r holds the   *)
(* arena it builds (tables, syms) and the visitor's fields; out is "ok"    *)
(* while the pass runs and names the exception that ended it otherwise.    *)
(* diag counts the diagnostics recorded, by level; inserted collects the   *)
(* ExternalSymbols the pass has put into a table.                          *)
(***************************************************************************)
SymbolTableVisitor(ast) ==
    [ active |-> TRUE,
      ast |-> ast,                      \* the items not yet visited
      current_scope |-> 1,
      current_module_dependencies |-> <<>>,
      generic_procedures |-> <<>>,      \* name -> procedure names
      overloaded_op_procs |-> <<>>,     \* intrinsic operator -> procedure names
      defined_op_procs |-> <<>>,        \* defined operator -> procedure names
      assgn_proc_names |-> <<>>,        \* the procedures of assignment(=)
      entry_functions |-> <<>>,         \* procedure -> entry -> statements
      entry_function_args |-> <<>>,     \* entry -> its arguments
      entry_function_arguments_mapping |-> <<>>,    \* name -> indices
      dflt_access |-> "Public",
      to_be_imported_later |-> <<>>,    \* pairs <<remote, local>>
      diag |-> [Error |-> 0, Warning |-> 0],
      out |-> "ok",
      inserted |-> {},
      tmp |-> 0,                        \* the node made last
      unsupported |-> "",               \* what import_all returns
      gp_procs |-> <<>>,                \* the Vec a generic import fills
      already |-> <<>>,                 \* symbols_already_imported_with_renaming
      continue_compilation |-> FALSE,   \* compiler_options.continue_compilation
      implicit_typing |-> FALSE,        \* compiler_options.implicit_typing
      class_procedures |-> <<>>,        \* type -> binding -> ClassProcInfos
      class_deferred_procedures |-> <<>>,   \* type -> binding -> attributes
      generic_class_procedures |-> <<>>,    \* type -> generic -> bindings
      result |-> "none" ]               \* what symbol_table_visitor returned

\* throw
Throw(r, what) == [r EXCEPT !.out = what]

\* diag.add of a diagnostic of the given level
diag_add(r, level) == [r EXCEPT !.diag[level] = @ + 1]

\* diag.add of an Error followed by throw SemanticAbort()
SemanticError(r) == Throw(diag_add(r, "Error"), "SemanticAbort")

\* to_lower on the names of the model
LowerOf ==
    ("A" :> "a" @@ "F" :> "f" @@ "GP" :> "gp" @@ "T" :> "t" @@ "X" :> "x")

to_lower(name) == IF name \in DOMAIN LowerOf THEN LowerOf[name] ELSE name

\* al.make_new<SymbolTable>(parent): the new table is Len(r.tables) + 1
make_new_SymbolTable(r, parent) ==
    [r EXCEPT !.tables = Append(@, Table([counter |-> U64(0, Len(r.tables) + 1),
                                          parent |-> parent]))]

\* the table a node constructor is about to make
new_symtab(r) == Len(r.tables) + 1

\* the node joins the arena and tmp names it
make_node(r, node) ==
    [r EXCEPT !.syms = Append(@, node), !.tmp = Len(r.syms) + 1]

\* a node constructor (ASR::make_X_t): the node joins the arena, tmp names
\* it, and the table it owns gets it as asr_owner
make_symbol(r, fields) ==
    IF Sym(fields).kind \in OwningKinds /\ Sym(fields).symtab # 0
        THEN [make_node(r, Sym(fields)) EXCEPT
                 !.tables[Sym(fields).symtab].owner = Len(r.syms) + 1]
        ELSE make_node(r, Sym(fields))

make_ExternalSymbol_t(r, symtab, name, external, module_name, original_name, access) ==
    make_symbol(r, [kind |-> "ExternalSymbol", name |-> name,
                    parent_symtab |-> symtab, external |-> external,
                    module_name |-> module_name,
                    original_name |-> original_name, access |-> access])

\* make_ExternalSymbol_t in the current scope with the default access
make_external(r, name, external, module_name, original_name) ==
    make_ExternalSymbol_t(r, r.current_scope, name, external, module_name,
                          original_name, r.dflt_access)

\* scope[name] = symbol
Bind(r, t, name, s) ==
    [r EXCEPT !.tables[t].scope = (name :> s) @@ @,
              !.inserted = IF SymOf(r, s).kind = "ExternalSymbol"
                           THEN @ \cup {s} ELSE @]

\* SymbolTable::add_symbol
add_symbol(r, t, name, s) ==
    IF name \in DOMAIN TabOf(r, t).scope THEN Throw(r, "DuplicateSymbol")
    ELSE Bind(r, t, name, s)

\* SymbolTable::add_or_overwrite_symbol
add_or_overwrite_symbol(r, t, name, s) == Bind(r, t, name, s)

\* add_symbol(name, tmp) of the node made last
add_tmp(r, t, name) == add_symbol(r, t, name, r.tmp)

\* add_or_overwrite_symbol(name, tmp) of the node made last
add_or_overwrite_tmp(r, t, name) == add_or_overwrite_symbol(r, t, name, r.tmp)

\* SymbolTable::erase_symbol
erase_symbol(r, t, name) ==
    [r EXCEPT !.tables[t].scope = [n \in (DOMAIN @) \ {name} |-> @[n]]]

\* what one entry of a module's table makes indirectly public
indirect_public_of(r, item) ==
    CASE item.kind = "Struct" /\ item.access # "Private" ->
             { k \in DOMAIN TabOf(r, item.symtab).scope :
                 SymOf(r, TabOf(r, item.symtab).scope[k]).kind
                     = "StructMethodDeclaration" }
      [] item.kind \in {"GenericProcedure", "CustomOperator"}
             /\ item.access # "Private" ->
             { SymOf(r, item.procs[i]).name : i \in 1..Len(item.procs) }
      [] OTHER -> {}

get_indirect_public_symbols(r, m) ==
    UNION { indirect_public_of(
                r, SymOf(r, TabOf(r, SymOf(r, m).symtab).scope[n])) :
            n \in DOMAIN TabOf(r, SymOf(r, m).symtab).scope }

\* a repack that points at the module's ExternalSymbol itself
repack_of_the_symbol(r, es0) == es0

\* the target of a repacked ExternalSymbol: es0->m_external
repacked_external(r, es0) == SymOf(r, es0).external

\* the module's symbol item, imported under the given key
import_all_own(r, m, item, x, key) ==
    add_tmp(make_external(r, x.name, item, SymOf(r, m).name, x.name),
            r.current_scope, key)

\* the switch of import_all on the class of the entry x under key
import_all_entry(r, m, to_submodule, indirect, key, item, x) ==
    CASE x.kind = "Function" ->
             IF x.access = "Private" /\ key \notin indirect THEN r
             ELSE import_all_own(r, m, item, x, to_lower(x.name))
      [] x.kind = "GenericProcedure" ->
             import_all_own(r, m, item, x, to_lower(x.name))
      [] x.kind = "CustomOperator" -> import_all_own(r, m, item, x, x.name)
      [] x.kind = "Variable" ->
             IF x.access = "Public" \/ to_submodule
             THEN import_all_own(r, m, item, x, to_lower(x.name))
             ELSE r
      [] x.kind = "ExternalSymbol" ->
             add_or_overwrite_tmp(
                 make_external(r, key, repacked_external(r, item),
                               x.module_name, x.original_name),
                 r.current_scope, key)
      [] x.kind \in {"Struct", "Requirement", "Template", "Union"} ->
             add_tmp(make_external(r, key, item, SymOf(r, m).name, x.name),
                     r.current_scope, key)
      [] x.kind = "Enum" -> r
      [] OTHER -> [r EXCEPT !.unsupported = key]

\* the body of the loop: names imported with a renaming and names the
\* current scope has already are passed over
import_all_item(r, m, to_submodule, already, indirect, key, item) ==
    IF Len(already) > 0 /\ present(already, key) THEN r
    ELSE IF SymbolTable_get_symbol(r, r.current_scope, key) # 0 THEN r
    ELSE import_all_entry(r, m, to_submodule, indirect, key, item,
                          SymOf(r, item))

\* the loop of import_all over the entries of the module's table
RECURSIVE import_all_loop(_, _, _, _, _, _, _)
import_all_loop(r, m, to_submodule, already, indirect, keys, i) ==
    IF i > Len(keys) \/ r.out # "ok" \/ r.unsupported # "" THEN r
    ELSE import_all_loop(
             import_all_item(r, m, to_submodule, already, indirect, keys[i],
                 SymbolTable_get_symbol(r, SymOf(r, m).symtab, keys[i])),
             m, to_submodule, already, indirect, keys, i + 1)

\* import_all: `use m`; unsupported is the name it returns
import_all(r, m, to_submodule, already) ==
    IF r.out # "ok" THEN r
    ELSE import_all_loop([r EXCEPT !.unsupported = ""], m, to_submodule,
                         already, get_indirect_public_symbols(r, m),
                         ScopeKeys(r, SymOf(r, m).symtab), 1)

RECURSIVE import_symbols_util(_, _, _, _, _)

\* the name a constituent is imported under
gather_local_sym(proc_name, local_sym, wrapped) ==
    IF wrapped THEN "@" \o proc_name \o "@" ELSE proc_name \o "@" \o local_sym

\* gp_procs with m_proc pushed unless it is there, and once more where
\* the code pushes it again after the presence test
gather_push(r, m_proc, twice) ==
    [r EXCEPT !.gp_procs =
        (IF present(@, m_proc) THEN @ ELSE Append(@, m_proc))
            \o (IF twice THEN <<m_proc>> ELSE <<>>)]

\* the constituent after its import: the one found before, or the symbol
\* the import bound
gather_pushed(r, direct, renamed, local_sym_, twice) ==
    IF r.out # "ok" THEN r
    ELSE gather_push(r,
             IF direct # 0 THEN direct
             ELSE IF renamed # 0 THEN renamed
             ELSE SymbolTable_resolve_symbol(r, r.current_scope, local_sym_),
             twice)

\* the import of a constituent from its module m_
gather_import(r, m_, proc_name, local_sym_) ==
    IF m_ = 0 THEN Throw(r, "crash")
    ELSE import_symbols_util(r, m_, SymOf(r, m_).name, proc_name, local_sym_)

\* one constituent: resolved in the current scope as direct or renamed,
\* imported under local_sym_ when it is neither
gather_proc(r, proc, proc_name, local_sym_, twice, direct, renamed) ==
    gather_pushed(
        IF direct # 0 \/ renamed # 0 THEN r
        ELSE gather_import(r, ASRUtils_get_sym_module(r, proc), proc_name,
                           local_sym_),
        direct, renamed, local_sym_, twice)

\* one of the loops of process_generic_proc_custom_op over the procedures
\* of an aggregate: each is resolved in the current scope, imported under
\* local_sym_ when it is not there, and pushed to gp_procs (twice where
\* the code pushes it again after the presence test)
RECURSIVE gather_procs(_, _, _, _, _, _)
gather_procs(r, procs, local_sym, wrapped, twice, i) ==
    IF i > Len(procs) \/ r.out # "ok" THEN r
    ELSE gather_procs(
             gather_proc(r, procs[i], SymOf(r, procs[i]).name,
                 gather_local_sym(SymOf(r, procs[i]).name, local_sym, wrapped),
                 twice,
                 SymbolTable_resolve_symbol(r, r.current_scope,
                                            SymOf(r, procs[i]).name),
                 SymbolTable_resolve_symbol(r, r.current_scope,
                     gather_local_sym(SymOf(r, procs[i]).name, local_sym,
                                      wrapped))),
             procs, local_sym, wrapped, twice, i + 1)

\* a constituent of the last branch: what does not resolve is queued
resolve_proc(r, proc_name, local_sym, m_proc) ==
    [r EXCEPT !.to_be_imported_later =
                  IF m_proc = 0
                  THEN Append(@, <<proc_name, proc_name \o "@" \o local_sym>>)
                  ELSE @,
              !.gp_procs = Append(@, m_proc)]

\* the loop of the last branch: what does not resolve is queued
RECURSIVE resolve_procs(_, _, _, _)
resolve_procs(r, procs, local_sym, i) ==
    IF i > Len(procs) THEN r
    ELSE resolve_procs(
             resolve_proc(r, SymOf(r, procs[i]).name, local_sym,
                 SymbolTable_resolve_symbol(r, r.current_scope,
                                            SymOf(r, procs[i]).name)),
             procs, local_sym, i + 1)

\* make_GenericProcedure_t or make_CustomOperator_t over gp_procs
make_aggregate(r, T, local_sym, cs) ==
    make_symbol(r, [kind |-> T, name |-> local_sym, parent_symtab |-> cs,
                    procs |-> r.gp_procs, access |-> r.dflt_access])

\* the aggregate over the gathered constituents replaces the local name
aggregate_overwritten(r, T, local_sym, cs) ==
    IF r.out # "ok" THEN r
    ELSE add_or_overwrite_tmp(make_aggregate(r, T, local_sym, cs), cs,
                              local_sym)

\* the local aggregate takes the gathered constituents
aggregate_extended(r, gp_sym) ==
    IF r.out # "ok" THEN r ELSE [r EXCEPT !.syms[gp_sym].procs = r.gp_procs]

\* the aggregate when every constituent resolved, an ExternalSymbol to the
\* module's aggregate otherwise
aggregate_added(r, T, local_sym, cs, t, m_name, gp_ext_name) ==
    add_tmp(IF \A j \in 1..Len(r.gp_procs) : r.gp_procs[j] # 0
                THEN make_aggregate(r, T, local_sym, cs)
                ELSE make_ExternalSymbol_t(r, cs, local_sym, t, m_name,
                                           gp_ext_name, r.dflt_access),
            cs, local_sym)

\* the branches of process_generic_proc_custom_op on what local_sym names
\* in the current scope: local, and gp_sym past an ExternalSymbol
process_aggregate(r, local_sym, t, m, T, local, gp_sym) ==
    IF local # 0 /\ SymOf(r, gp_sym).kind # T THEN Throw(r, "crash")
    ELSE IF local # 0 /\ SymOf(r, local).kind = "ExternalSymbol" THEN
        aggregate_overwritten(
            gather_procs(
                gather_procs([r EXCEPT !.gp_procs = <<>>],
                             SymOf(r, gp_sym).procs, local_sym, FALSE, FALSE,
                             1),
                SymOf(r, t).procs, local_sym, FALSE, FALSE, 1),
            T, local_sym, r.current_scope)
    ELSE IF local # 0 THEN
        aggregate_extended(
            gather_procs([r EXCEPT !.gp_procs = SymOf(r, gp_sym).procs],
                         SymOf(r, t).procs, local_sym, TRUE, TRUE, 1),
            gp_sym)
    ELSE
        aggregate_added(
            resolve_procs([r EXCEPT !.gp_procs = <<>>], SymOf(r, t).procs,
                          local_sym, 1),
            T, local_sym, r.current_scope, t, SymOf(r, m).name,
            SymOf(r, t).name)

\* T is the kind of aggregate: "GenericProcedure" or "CustomOperator"
process_generic_proc_custom_op(r, local_sym, t, m, T) ==
    process_aggregate(r, local_sym, t, m, T,
        SymbolTable_get_symbol(r, r.current_scope, local_sym),
        ASRUtils_symbol_get_past_external(
            r, SymbolTable_get_symbol(r, r.current_scope, local_sym)))

\* the shadow Warning and the erase that goes with it
shadowed(r, local_sym) ==
    erase_symbol(diag_add(r, "Warning"), r.current_scope, local_sym)

shadowed_if(r, is_already_defined, local_sym) ==
    IF is_already_defined THEN shadowed(r, local_sym) ELSE r

\* the procedures of the interface that overrides a Struct's constructor
\* are imported later
interface_override_queued(r, m, remote_sym, local_sym) ==
    IF SymbolTable_resolve_symbol(r, SymOf(r, m).symtab, "~" \o remote_sym) # 0
        THEN [r EXCEPT !.to_be_imported_later =
                 Append(@, <<"~" \o remote_sym, "~" \o local_sym>>)]
        ELSE r

\* the aggregate an imported ExternalSymbol stands for is processed too
import_external_aggregate(r, m, local_sym, external, kind) ==
    IF kind \in {"GenericProcedure", "CustomOperator"}
        THEN process_generic_proc_custom_op(r, local_sym, external, m, kind)
        ELSE r

\* the branches of import_symbols_util on the class of the module's symbol
\* t, which is x; local is what local_sym names in the current scope
import_symbol(r, m, remote_sym, local_sym, t, x, local) ==
    IF x.kind = "Function" /\ x.return_var = 0 THEN
        add_tmp(make_external(shadowed_if(r, local # 0, local_sym),
                              local_sym, t, SymOf(r, m).name, x.name),
                r.current_scope, local_sym)
    ELSE IF x.kind \in {"GenericProcedure", "CustomOperator"} THEN
        process_generic_proc_custom_op(r, local_sym, t, m, x.kind)
    ELSE IF x.kind = "Function" THEN
        IF local # 0 /\ SymOf(r, local).kind # "ExternalSymbol"
        THEN Throw(r, "crash")
        ELSE add_or_overwrite_tmp(
                 make_external(
                     shadowed_if(r, local # 0 /\ SymOf(r, local).external # t,
                                 local_sym),
                     local_sym, t, SymOf(r, m).name, x.name),
                 r.current_scope, local_sym)
    ELSE IF x.kind = "Variable" THEN
        IF x.access = "Private"
        THEN SemanticError(shadowed_if(r, local # 0, local_sym))
        ELSE add_tmp(make_external(shadowed_if(r, local # 0, local_sym),
                                   local_sym, t, SymOf(r, m).name, x.name),
                     r.current_scope, local_sym)
    ELSE IF x.kind = "Struct" THEN
        IF local # 0 /\ ASRUtils_symbol_get_past_external(r, local) = t
        THEN interface_override_queued(r, m, remote_sym, local_sym)
        ELSE add_tmp(
                 make_external(
                     shadowed_if(
                         interface_override_queued(r, m, remote_sym,
                                                   local_sym),
                         local # 0, local_sym),
                     local_sym, t, SymOf(r, m).name, x.name),
                 r.current_scope, local_sym)
    ELSE IF x.kind \in {"Requirement", "Template"} THEN
        add_or_overwrite_tmp(
            make_external(r, local_sym, t, SymOf(r, m).name, x.name),
            r.current_scope, local_sym)
    ELSE IF x.kind = "ExternalSymbol" THEN
        import_external_aggregate(
            add_or_overwrite_tmp(
                make_external(r, local_sym, repacked_external(r, t),
                              x.module_name, x.original_name),
                r.current_scope, local_sym),
            m, local_sym, x.external, SymOf(r, x.external).kind)
    ELSE Throw(r, "LCompilersException")

\* the module's symbol of that name, which must be there
import_found(r, m, remote_sym, local_sym, t) ==
    IF t = 0 THEN SemanticError(r)
    ELSE import_symbol(r, m, remote_sym, local_sym, t, SymOf(r, t),
             SymbolTable_get_symbol(r, r.current_scope, local_sym))

\* import of one symbol of the module m: `use m, only: local_sym => remote_sym`
import_symbols_util(r, m, msym, remote, local_sym) ==
    import_found(r, m, to_lower(remote), local_sym,
        SymbolTable_resolve_symbol(r, SymOf(r, m).symtab, to_lower(remote)))

\* catch (SemanticAbort &e) { if (!continue_compilation) throw e; }
Catch(r) ==
    IF r.out = "SemanticAbort" /\ r.continue_compilation
    THEN [r EXCEPT !.out = "ok"] ELSE r

\* symbols_already_imported_with_renaming.push_back(remote_sym)
already_imported(r, remote_sym) ==
    IF r.out # "ok" THEN r ELSE [r EXCEPT !.already = Append(@, remote_sym)]

\* the local name of a symbol of the statement: its rename when it has one
use_local_sym(symbol) ==
    IF symbol.local_rename # "" THEN to_lower(symbol.local_rename)
    ELSE to_lower(symbol.remote_sym)

\* the loop of visit_Use over the symbols of the statement
RECURSIVE use_symbols(_, _, _, _, _)
use_symbols(r, m, msym, symbols, i) ==
    IF i > Len(symbols) \/ r.out # "ok" THEN r
    ELSE use_symbols(
             already_imported(
                 import_symbols_util(r, m, msym,
                                     to_lower(symbols[i].remote_sym),
                                     use_local_sym(symbols[i])),
                 to_lower(symbols[i].remote_sym)),
             m, msym, symbols, i + 1)

\* a loop that drops what was put off
import_later_dropped(r, m, msym, remote_sym, local_sym) == r

\* one import that was put off, made unless its local name resolves by now
import_later_one(r, m, msym, remote_sym, local_sym) ==
    IF SymbolTable_resolve_symbol(r, r.current_scope, local_sym) # 0 THEN r
    ELSE already_imported(
             import_symbols_util(r, m, msym, remote_sym, local_sym),
             remote_sym)

\* the loop of visit_Use over the imports that were put off
RECURSIVE import_later(_, _, _)
import_later(r, m, msym) ==
    IF r.to_be_imported_later = <<>> \/ r.out # "ok" THEN r
    ELSE import_later(
             import_later_one([r EXCEPT !.to_be_imported_later = Tail(@)],
                              m, msym, Head(r.to_be_imported_later)[1],
                              Head(r.to_be_imported_later)[2]),
             m, msym)

\* the name of the module a use statement names
Use_msym(x) ==
    IF to_lower(x.module) = "ieee_arithmetic"
        THEN "lfortran_intrinsic_ieee_arithmetic" ELSE to_lower(x.module)

\* the module joins current_module_dependencies
Use_entered(r, msym) ==
    [r EXCEPT !.current_module_dependencies =
                  IF present(@, msym) THEN @ ELSE Append(@, msym),
              !.to_be_imported_later = <<>>, !.already = <<>>]

\* throw LCompilersException("'" + unsupported_sym_name + "' is not supported")
Use_unsupported(r) ==
    IF r.out = "ok" /\ r.unsupported # ""
        THEN Throw(r, "LCompilersException") ELSE r

\* the only-list, then the imports it put off
Use_named(r, x, msym, t) ==
    import_later(use_symbols(r, t, msym, x.symbols, 1), t, msym)

\* the rest of the module after a list of renames
Use_rest(r, t) == import_all(r, t, FALSE, r.already)

\* the forms of the statement, t being what its module name resolves to
Use_module(r, x, msym, t) ==
    IF t = 0 THEN SemanticError(r)
    ELSE IF SymOf(r, t).kind # "Module" THEN SemanticError(r)
    ELSE IF Len(x.symbols) = 0
        THEN Use_unsupported(import_all(r, t, FALSE, <<>>))
    ELSE IF ~x.only_present
        THEN Use_unsupported(Use_rest(Use_named(r, x, msym, t), t))
    ELSE Use_named(r, x, msym, t)

Use_resolved(r, x, msym) ==
    Use_module(r, x, msym,
               SymbolTable_resolve_symbol(r, r.current_scope, msym))

\* x: [module, only_present, symbols], a symbol being
\* [remote_sym, local_rename] with local_rename "" when there is none
visit_Use(r, x) == Use_resolved(Use_entered(r, Use_msym(x)), x, Use_msym(x))

\* the procedure names of a generic name, old and new
Interface_names(gps, generic_name, names) ==
    (IF generic_name \in DOMAIN gps THEN gps[generic_name] ELSE <<>>)
        \o names

\* the map with the names appended to the entry of the generic name
Interface_filled(gps, generic_name, names) ==
    (generic_name :> Interface_names(gps, generic_name, names)) @@ gps

\* the class of the interface's header: a generic name where none is given
Interface_header(x) == IF "header" \in DOMAIN x THEN x.header ELSE "Name"

\* intrinsic2str of the operator of an interface header
intrinsic2str(op) == IF op = "+" THEN "~add" ELSE "~" \o op

\* x: [header, name, names], the names of one `module procedure` statement
visit_Interface(r, x) ==
    IF ~NoDup(x.names) THEN SemanticError(r)
    ELSE CASE Interface_header(x) = "Name" ->
                  [r EXCEPT !.generic_procedures =
                      Interface_filled(@, to_lower(x.name), x.names)]
           [] Interface_header(x) = "Operator" ->
                  [r EXCEPT !.overloaded_op_procs =
                      Interface_filled(@, intrinsic2str(x.name), x.names)]
           [] Interface_header(x) = "DefinedOperator" ->
                  [r EXCEPT !.defined_op_procs =
                      Interface_filled(@, to_lower(x.name), x.names)]
           [] Interface_header(x) = "Assignment" ->
                  [r EXCEPT !.assgn_proc_names = @ \o x.names]

\* the symbol a name resolved to, which must be one
resolved_or_error(r, x) ==
    IF x = 0 THEN SemanticError(r) ELSE [r EXCEPT !.tmp = x]

\* CommonVisitor::resolve_symbol(loc, name): an Error when nothing is found
resolve_symbol_or_error(r, name) ==
    resolved_or_error(r, SymbolTable_resolve_symbol(r, r.current_scope, name))

\* gp_procs.push_back of the symbol found last
push_tmp(r) ==
    IF r.out # "ok" THEN r ELSE [r EXCEPT !.gp_procs = Append(@, r.tmp)]

\* the name of a listed procedure that is called as its generic
correct_pname(pname, generic) ==
    IF pname = generic THEN pname \o "~genericprocedure" ELSE pname

\* the first loop of add_generic_procedures: the listed names, resolved
RECURSIVE listed_procedures(_, _, _, _)
listed_procedures(r, generic, pnames, i) ==
    IF i > Len(pnames) \/ r.out # "ok" THEN r
    ELSE listed_procedures(
             push_tmp(resolve_symbol_or_error(
                          r, to_lower(correct_pname(pnames[i], generic)))),
             generic, pnames, i + 1)

\* one procedure of the visible generic: local is what its name is bound to
\* in the current scope, s the symbol of that name in the generic's module m
visible_procedure(r, proc_name, local, m, s) ==
    IF local # 0 THEN [r EXCEPT !.gp_procs = Append(@, local)]
    ELSE IF m = 0 \/ s = 0 THEN Throw(r, "crash")
    ELSE IF SymOf(r, s).kind = "Function"
        THEN push_tmp(add_tmp(make_external(r, proc_name, s, SymOf(r, m).name,
                                            proc_name),
                              r.current_scope, proc_name))
        ELSE r

visible_procedure_of(r, proc_name, m) ==
    visible_procedure(r, proc_name,
        SymbolTable_get_symbol(r, r.current_scope, proc_name), m,
        SymbolTable_get_symbol(r, SymOf(r, m).symtab, proc_name))

\* the second loop: the procedures of a generic of that name that is
\* already visible, imported from its module where they are not in scope
RECURSIVE visible_procedures(_, _, _, _)
visible_procedures(r, sym, procs, i) ==
    IF i > Len(procs) \/ r.out # "ok" THEN r
    ELSE visible_procedures(
             visible_procedure_of(r, SymOf(r, procs[i]).name,
                                  ASRUtils_get_sym_module(r, sym)),
             sym, procs, i + 1)

\* the name the generic is defined under: behind a ~ when a Struct or a
\* Function has the name
generic_sym_name(r, first, der_type_name) ==
    IF der_type_name # 0
         /\ SymOf(r, der_type_name).kind \in {"Struct", "Function"}
        THEN "~" \o first ELSE first

\* make_GenericProcedure_t over gp_procs, defined in the current scope
generic_defined(r, sym_name_str) ==
    IF r.out # "ok" THEN r
    ELSE add_or_overwrite_tmp(
             make_symbol(r, [kind |-> "GenericProcedure",
                             name |-> sym_name_str,
                             parent_symtab |-> r.current_scope,
                             procs |-> r.gp_procs, access |-> "Public"]),
             r.current_scope, sym_name_str)

\* the procedures of a generic of that name that is visible already
generic_merged(r, sym_name_str, visible, sym) ==
    generic_defined(
        IF visible # 0 /\ SymOf(r, sym).kind = "GenericProcedure"
            THEN visible_procedures(r, sym, SymOf(r, sym).procs, 1)
            ELSE r,
        sym_name_str)

generic_visible(r, sym_name_str, visible) ==
    generic_merged(r, sym_name_str, visible,
                   ASRUtils_symbol_get_past_external(r, visible))

generic_named(r, sym_name_str) ==
    generic_visible(r, sym_name_str,
        SymbolTable_resolve_symbol(r, r.current_scope, sym_name_str))

\* the generic of the listed procedures
generic_listed(r, first) ==
    IF r.out # "ok" THEN r
    ELSE generic_named(r,
             generic_sym_name(r, first,
                 SymbolTable_get_symbol(r, r.current_scope, first)))

RECURSIVE add_generic_procedures_loop(_, _, _)
add_generic_procedures_loop(r, names, i) ==
    IF i > Len(names) \/ r.out # "ok" THEN r
    ELSE add_generic_procedures_loop(
             generic_listed(
                 listed_procedures([r EXCEPT !.gp_procs = <<>>], names[i],
                                   r.generic_procedures[names[i]], 1),
                 names[i]),
             names, i + 1)

add_generic_procedures(r) ==
    assign(add_generic_procedures_loop(
               r, KeysInOrder(DOMAIN r.generic_procedures), 1),
           "generic_procedures", <<>>)

\* update_custom_op_name: a defined operator goes behind "~~", the name of
\* an intrinsic operator and of the assignment stays
update_custom_op_name(op) ==
    IF op \in {"~add", "~assign"} THEN op ELSE "~~" \o op

\* the first loop of add_custom_operator: the listed names, resolved
RECURSIVE operator_procedures(_, _, _)
operator_procedures(r, pnames, i) ==
    IF i > Len(pnames) \/ r.out # "ok" THEN r
    ELSE operator_procedures(
             push_tmp(resolve_symbol_or_error(r, to_lower(pnames[i]))),
             pnames, i + 1)

\* the procedures of an operator of that name that was imported, each
\* resolved under its name behind "@" and the operator's
RECURSIVE imported_operator_procedures(_, _, _, _)
imported_operator_procedures(r, generic_name, procs, i) ==
    IF i > Len(procs) \/ r.out # "ok" THEN r
    ELSE imported_operator_procedures(
             push_tmp(resolve_symbol_or_error(
                          r, SymOf(r, procs[i]).name \o "@" \o generic_name)),
             generic_name, procs, i + 1)

\* the CustomOperator an ExternalSymbol of the operator's name stands for
imported_operator(r, sym) ==
    IF sym # 0 /\ SymOf(r, sym).kind = "ExternalSymbol"
         /\ SymOf(r, SymOf(r, sym).external).kind = "CustomOperator"
        THEN SymOf(r, sym).external ELSE 0

operator_merged(r, generic_name, cop) ==
    IF r.out # "ok" \/ cop = 0 THEN r
    ELSE imported_operator_procedures(r, generic_name, SymOf(r, cop).procs, 1)

\* make_CustomOperator_t over gp_procs, defined in the current scope
operator_defined(r, generic_name, access) ==
    IF r.out # "ok" THEN r
    ELSE add_or_overwrite_tmp(
             make_symbol(r, [kind |-> "CustomOperator", name |-> generic_name,
                             parent_symtab |-> r.current_scope,
                             procs |-> r.gp_procs, access |-> access]),
             r.current_scope, generic_name)

operator_named(r, generic_name, access) ==
    IF r.out # "ok" THEN r
    ELSE operator_defined(
             operator_merged(r, generic_name,
                 imported_operator(r, SymbolTable_get_symbol(
                                          r, r.current_scope, generic_name))),
             generic_name, access)

\* add_custom_operator of the pair <<first, names>>
add_custom_operator(r, first, names, access) ==
    IF r.out # "ok" THEN r
    ELSE operator_named(
             operator_procedures([r EXCEPT !.gp_procs = <<>>], names, 1),
             update_custom_op_name(first), access)

RECURSIVE add_custom_operators(_, _, _, _)
add_custom_operators(r, procs, names, i) ==
    IF i > Len(names) \/ r.out # "ok" THEN r
    ELSE add_custom_operators(
             add_custom_operator(r, names[i], procs[names[i]], "Public"),
             procs, names, i + 1)

\* the operators of the intrinsic names, then those of the defined names
add_overloaded_procedures(r) ==
    assign(
        add_custom_operators(
            assign(
                add_custom_operators(r, r.overloaded_op_procs,
                    KeysInOrder(DOMAIN r.overloaded_op_procs), 1),
                "overloaded_op_procs", <<>>),
            r.defined_op_procs, KeysInOrder(DOMAIN r.defined_op_procs), 1),
        "defined_op_procs", <<>>)

\* the operator ~assign of the listed procedures; the list stays filled
add_assignment_procedures(r) ==
    IF r.out # "ok" \/ r.assgn_proc_names = <<>> THEN r
    ELSE add_custom_operator(r, "~assign", r.assgn_proc_names, "Public")

\* visit_Declaration of one entity: a Variable of the current scope.
\* x: [name, access, storage, value]
visit_Declaration(r, x) ==
    IF SymbolTable_get_symbol(r, r.current_scope, to_lower(x.name)) # 0
        THEN SemanticError(r)
        ELSE add_tmp(
                 make_symbol(r, [kind |-> "Variable",
                                 name |-> to_lower(x.name),
                                 parent_symtab |-> r.current_scope,
                                 access |-> x.access, storage |-> x.storage,
                                 symbolic_value |-> x.value,
                                 value |-> x.value]),
                 r.current_scope, to_lower(x.name))

\* the enumerators of an enum, declared in its table with the values 0, 1, ..
RECURSIVE visit_enumerators(_, _, _)
visit_enumerators(r, items_, i) ==
    IF i > Len(items_) \/ r.out # "ok" THEN r
    ELSE visit_enumerators(
             visit_Declaration(r, [name |-> items_[i], access |-> r.dflt_access,
                                   storage |-> "Parameter",
                                   value |-> Expr([k |-> "IntegerConstant",
                                                   v |-> i - 1])]),
             items_, i + 1)

\* an ExternalSymbol of the parent scope to the enumerator it, which is var
expose_enumerator(r, parent_scope, sym_name, it, var) ==
    add_tmp(make_ExternalSymbol_t(r, parent_scope, var.name, it, sym_name,
                                  var.name, var.access),
            parent_scope, var.name)

\* the loop of visit_Enum that exposes the enumerators in the parent scope
RECURSIVE expose_enumerators(_, _, _, _, _, _)
expose_enumerators(r, parent_scope, scope, sym_name, keys, i) ==
    IF i > Len(keys) \/ r.out # "ok" THEN r
    ELSE expose_enumerators(
             expose_enumerator(r, parent_scope, sym_name,
                 SymbolTable_get_symbol(r, scope, keys[i]),
                 SymOf(r, SymbolTable_get_symbol(r, scope, keys[i]))),
             parent_scope, scope, sym_name, keys, i + 1)

\* current_scope = al.make_new<SymbolTable>(parent_scope)
enter_scope(r) ==
    [make_new_SymbolTable(r, r.current_scope)
         EXCEPT !.current_scope = new_symtab(r)]

\* the Enum over the declared enumerators, defined in the parent scope and
\* its enumerators exposed there
Enum_declared(r, parent_scope, scope, sym_name) ==
    IF r.out # "ok" THEN r
    ELSE assign(
             expose_enumerators(
                 add_tmp(
                     make_symbol(r,
                         [kind |-> "Enum", name |-> sym_name,
                          symtab |-> scope,
                          n_members |-> Len(ScopeKeys(r, scope)),
                          abi |-> "BindC", access |-> r.dflt_access,
                          enum_value_type |-> "IntegerConsecutiveFromZero"]),
                     parent_scope, sym_name),
                 parent_scope, scope, sym_name, ScopeKeys(r, scope), 1),
             "current_scope", parent_scope)

\* SymbolTableVisitor::visit_Enum.  x: [attr, items]
SymbolTableVisitor_visit_Enum(r, x) ==
    IF x.attr # "bind(c)" THEN SemanticError(enter_scope(r))
    ELSE Enum_declared(visit_enumerators(enter_scope(r), x.items, 1),
                       r.current_scope, new_symtab(r),
                       "lcompilers__nameless_enum")

\* the name of the subroutine is that of a generic visible in the parent
\* scope: f1_ is what the name is bound to and gp that symbol past an
\* ExternalSymbol
Subroutine_is_gp(f1_, gp) == f1_ # 0 /\ gp.kind = "GenericProcedure"

Subroutine_sym_name(name, f1_, gp) ==
    IF Subroutine_is_gp(f1_, gp) /\ name = gp.name
        THEN name \o "~genericprocedure" ELSE name

\* the generic is an imported one, of which a local copy is made
Subroutine_update_gp(r, f1_, gp) ==
    Subroutine_is_gp(f1_, gp) /\ SymOf(r, f1_).kind # "GenericProcedure"

\* the local copy of an imported generic
Subroutine_copied(r, update_gp, gp, parent_scope) ==
    IF r.out = "ok" /\ update_gp
        THEN add_or_overwrite_tmp(
                 make_symbol(r, [kind |-> "GenericProcedure",
                                 name |-> gp.name,
                                 parent_symtab |-> parent_scope,
                                 procs |-> gp.procs, access |-> gp.access]),
                 parent_scope, gp.name)
        ELSE r

\* the constituents of the generic that are the symbol old
Subroutine_found(r, gp, old) ==
    { igp \in 1..Len(gp.procs) :
        ASRUtils_symbol_get_past_external(r, gp.procs[igp]) = old }

\* the first of a nonempty set of indices, 0 for the empty set
first_index(found) ==
    IF found = {} THEN 0
    ELSE CHOOSE igp \in found : \A other \in found : igp <= other

gp_index_to_be_updated(r, gp, parent_scope, sym_name) ==
    first_index(
        Subroutine_found(r, gp,
            ASRUtils_symbol_get_past_external(r,
                SymbolTable_resolve_symbol(r, parent_scope, sym_name))))

\* what the name is bound to already: an interface declaration gives way,
\* a generic keeps its name, anything else is an Error
Subroutine_checked(r, name, f1_, gp, sym_name, parent_scope) ==
    IF r.out # "ok" \/ f1_ = 0 THEN r
    ELSE IF gp.kind = "Function" THEN
        IF gp.abi = "ExternalUndefined"
        THEN erase_symbol(r, parent_scope, name)
        ELSE SemanticError(r)
    ELSE IF Subroutine_is_gp(f1_, gp)
        THEN erase_symbol(r, parent_scope, sym_name)
    ELSE SemanticError(r)

\* s_access: dflt_access, or assgnd_access[sym_name] when the name has an
\* entry there (x.access, "" for none)
Subroutine_access(r, x) ==
    IF x.access # "" THEN x.access ELSE r.dflt_access

\* make_Function_t, added to the parent scope
Subroutine_defined(r, sym_name, scope, parent_scope, s_access) ==
    IF r.out # "ok" THEN r
    ELSE add_tmp(
             make_symbol(r, [kind |-> "Function", name |-> sym_name,
                             symtab |-> scope,
                             type |-> Type([base |-> "FunctionType"]),
                             access |-> s_access]),
             parent_scope, sym_name)

\* an alternate return: an m_arg that is nullptr, "" here
has_alternate_return(args) == \E i \in 1..Len(args) : args[i] = ""

\* the two loops over x.m_args: an alternate return is an Error; a dummy
\* argument the subroutine's scope does not hold (it declares nothing) is an
\* Error, past which the loop goes on only when compilation continues
Subroutine_args(r, args) ==
    IF r.out # "ok" \/ args = <<>> THEN r
    ELSE IF has_alternate_return(args) \/ ~r.continue_compilation
        THEN SemanticError(r)
    ELSE [r EXCEPT !.diag.Error = @ + Len(args)]

\* the local copy of the generic gets the new Function in the place of the
\* old one
Subroutine_gp_updated(r, update_gp, f1_gp, index) ==
    IF ~update_gp THEN r
    ELSE IF index = 0 THEN Throw(r, "crash")
    ELSE [r EXCEPT !.syms[f1_gp].procs[index] = r.tmp]

Subroutine_left(r, update_gp, f1_gp, index, parent_scope) ==
    IF r.out # "ok" THEN r
    ELSE [Subroutine_gp_updated(r, update_gp, f1_gp, index)
              EXCEPT !.current_scope = parent_scope]

\* the visit from the local copy on; r is the visitor after it
Subroutine_walk(r, x, name, f1_, gp, sym_name, update_gp, scope, parent_scope) ==
    Subroutine_left(
        Subroutine_defined(
            Subroutine_checked(r, name, f1_, gp, sym_name, parent_scope),
            sym_name, scope, parent_scope, Subroutine_access(r, x)),
        update_gp, IF update_gp THEN r.tmp ELSE f1_,
        gp_index_to_be_updated(r, gp, parent_scope, sym_name),
        parent_scope)

Subroutine_generic(r, x, name, f1_, gp) ==
    Subroutine_walk(
        Subroutine_copied(Subroutine_args(enter_scope(r), x.args),
                          Subroutine_update_gp(r, f1_, gp),
                          gp, r.current_scope),
        x, name, f1_, gp, Subroutine_sym_name(name, f1_, gp),
        Subroutine_update_gp(r, f1_, gp), new_symtab(r), r.current_scope)

\* the visit from `parent_scope = current_scope` on, the name looked up in
\* the parent scope
Subroutine_named(r, x, name) ==
    IF r.out # "ok" THEN r
    ELSE Subroutine_generic(r, x, name,
             SymbolTable_get_symbol(r, r.current_scope, name),
             SymOf(r, ASRUtils_symbol_get_past_external(r,
                          SymbolTable_get_symbol(r, r.current_scope, name))))

LowerAll(names) == [i \in 1..Len(names) |-> to_lower(names[i])]

\* a templated subroutine: the Template over the scope just entered joins
\* the parent scope, and the scope becomes the parent of the subroutine's
Subroutine_template(r, x, scope, grandparent_scope, sym_name) ==
    assign(add_tmp(make_symbol(r, [kind |-> "Template", name |-> sym_name,
                                   symtab |-> scope,
                                   args |-> LowerAll(x.temp_args)]),
                   grandparent_scope, sym_name),
           "current_scope", scope)

\* SymbolTableVisitor::visit_Subroutine of a subroutine without declarations
\* and contained procedures.  x: [name, access, temp_args, args]
visit_Subroutine(r, x) ==
    IF x.temp_args = <<>> THEN Subroutine_named(r, x, to_lower(x.name))
    ELSE assign(
             Subroutine_named(
                 Subroutine_template(enter_scope(r), x, new_symtab(r),
                                     r.current_scope, to_lower(x.name)),
                 x, to_lower(x.name)),
             "current_scope", r.current_scope)

\* visit_unit_decl1 over the use statements, each under the catch
RECURSIVE visit_uses(_, _, _)
visit_uses(r, use, i) ==
    IF i > Len(use) \/ r.out # "ok" THEN r
    ELSE visit_uses(Catch(visit_Use(r, use[i])), use, i + 1)

\* cdf[dt][pname] exists
has_attribute_entry(cdf, dt, pname) ==
    dt \in DOMAIN cdf /\ pname \in DOMAIN cdf[dt]

\* class_deferred_procedures holds the attribute for the binding of the type
has_attribute(cdf, dt, pname, attr) ==
    /\ dt \in DOMAIN cdf
    /\ pname \in DOMAIN cdf[dt]
    /\ attr \in cdf[dt][pname]

\* ASRUtils::is_class_type: a StructType that is no C struct, which is the
\* type of a `class(t)` entity
is_class_type(t) == t.base = "StructType" /\ ~t.is_cstruct

\* the loop of arg_type_equal_to_class, up the m_parent links
RECURSIVE class_or_parent_is(_, _, _)
class_or_parent_is(r, var_type_clss_sym, clss_sym) ==
    IF var_type_clss_sym = 0 THEN FALSE
    ELSE \/ var_type_clss_sym = clss_sym
         \/ class_or_parent_is(r, SymOf(r, var_type_clss_sym).parent, clss_sym)

\* arg_type_equal_to_class of the Var of the Variable var
arg_type_equal_to_class(r, var, clss_sym) ==
    /\ is_class_type(SymOf(r, var).type)
    /\ class_or_parent_is(r,
           ASRUtils_symbol_get_past_external(r, SymOf(r, var).type_declaration),
           clss_sym)

\* the formals of func that strcmp finds equal to pass_arg_name
pass_arg_named(r, func, pass_arg_name) ==
    { i \in 1..Len(func.args) : SymOf(r, func.args[i]).name = pass_arg_name }

\* the pass-object formal is there and of the class: the first formal when
\* pass_arg_name is nullptr (""), the first formal of that name otherwise
pass_obj_dum_arg_matches(r, func, pass_arg_name, clss_sym) ==
    IF pass_arg_name = ""
        THEN /\ Len(func.args) # 0
             /\ arg_type_equal_to_class(r, func.args[1], clss_sym)
        ELSE /\ pass_arg_named(r, func, pass_arg_name) # {}
             /\ arg_type_equal_to_class(r,
                    func.args[first_index(pass_arg_named(r, func, pass_arg_name))],
                    clss_sym)

ensure_matching_types_for_pass_obj_dum_arg(r, func, pass_arg_name, clss_sym) ==
    IF r.out # "ok" \/ pass_obj_dum_arg_matches(r, func, pass_arg_name, clss_sym)
        THEN r
        ELSE SemanticError(r)

\* pass_arg_name: the name in pass(...), nullptr ("") without one
class_pass_arg_name(info) ==
    IF "pass" \in DOMAIN info THEN info.pass.name ELSE ""

\* make_StructMethodDeclaration_t, added to the table of the Struct
class_procedure_declared(r, clss, pname, info, proc_sym, is_deferred, is_nopass) ==
    IF r.out # "ok" THEN r
    ELSE add_tmp(
             make_symbol(r, [kind |-> "StructMethodDeclaration", name |-> pname,
                             parent_symtab |-> clss.symtab,
                             self_argument |-> class_pass_arg_name(info),
                             proc_name |-> info.procedure.name,
                             proc |-> proc_sym, is_deferred |-> is_deferred,
                             is_nopass |-> is_nopass]),
             clss.symtab, pname)

\* the binding once its procedure is looked up in the scope of the Struct
class_procedure_resolved(r, clss_sym, pname, info, proc_sym, is_deferred, is_nopass) ==
    IF proc_sym = 0 THEN SemanticError(r)
    ELSE class_procedure_declared(
             IF is_nopass THEN r
             ELSE ensure_matching_types_for_pass_obj_dum_arg(
                      r, SymOf(r, proc_sym), class_pass_arg_name(info), clss_sym),
             SymOf(r, clss_sym), pname, info, proc_sym, is_deferred, is_nopass)

\* the body of the inner loop of add_class_procedures
add_class_procedure(r, dt, clss_sym, pname, info) ==
    IF /\ "pass" \in DOMAIN info
       /\ has_attribute(r.class_deferred_procedures, dt, pname, "nopass")
        THEN SemanticError(r)
        ELSE class_procedure_resolved(r, clss_sym, pname, info,
                 SymbolTable_resolve_symbol(
                     r, ASRUtils_symbol_parent_symtab(r, clss_sym),
                     info.procedure.name),
                 has_attribute(r.class_deferred_procedures,
                               SymOf(r, clss_sym).name, pname, "deferred"),
                 has_attribute(r.class_deferred_procedures, dt, pname, "nopass"))

\* the bindings of the type dt, whose Struct is clss_sym
RECURSIVE add_class_procedures_of(_, _, _, _, _)
add_class_procedures_of(r, dt, clss_sym, pnames, i) ==
    IF i > Len(pnames) \/ r.out # "ok" THEN r
    ELSE add_class_procedures_of(
             add_class_procedure(r, dt, clss_sym, pnames[i],
                                 r.class_procedures[dt][pnames[i]]),
             dt, clss_sym, pnames, i + 1)

RECURSIVE add_class_procedures_loop(_, _, _)
add_class_procedures_loop(r, dts, i) ==
    IF i > Len(dts) \/ r.out # "ok" THEN r
    ELSE add_class_procedures_loop(
             add_class_procedures_of(r, dts[i],
                 ASRUtils_symbol_get_past_external(r,
                     SymbolTable_resolve_symbol(r, r.current_scope, dts[i])),
                 KeysInOrder(DOMAIN r.class_procedures[dts[i]]), 1),
             dts, i + 1)

add_class_procedures(r) ==
    add_class_procedures_loop(r, KeysInOrder(DOMAIN r.class_procedures), 1)

\* the candidates of a generic binding: what the table of the Struct binds
\* the names to, 0 for a name it lacks
generic_class_candidates(r, symtab, names) ==
    [i \in 1..Len(names) |-> SymbolTable_get_symbol(r, symtab, names[i])]

\* make_GenericProcedure_t in the table of the Struct, the generic name
\* being that of no operator; a candidate the table lacks is an Error
add_generic_class_procedure(r, symtab, generic_name, cand_procs) ==
    IF \E i \in 1..Len(cand_procs) : cand_procs[i] = 0 THEN SemanticError(r)
    ELSE add_tmp(make_symbol(r, [kind |-> "GenericProcedure",
                                 name |-> generic_name,
                                 parent_symtab |-> symtab,
                                 procs |-> cand_procs, access |-> "Public"]),
                 symtab, generic_name)

\* the inner loop of add_generic_class_procedures
RECURSIVE add_generic_class_procedures_of(_, _, _, _, _)
add_generic_class_procedures_of(r, dt, symtab, generic_names, i) ==
    IF i > Len(generic_names) \/ r.out # "ok" THEN r
    ELSE add_generic_class_procedures_of(
             add_generic_class_procedure(r, symtab, generic_names[i],
                 generic_class_candidates(
                     r, symtab,
                     r.generic_class_procedures[dt][generic_names[i]])),
             dt, symtab, generic_names, i + 1)

\* the body of the outer loop: proc_sym is what the current scope binds the
\* name of the type to, read through without a test for nullptr
add_generic_class_procedures_in(r, dt, proc_sym) ==
    IF proc_sym = 0 THEN Throw(r, "crash")
    ELSE IF SymOf(r, proc_sym).kind = "ExternalSymbol" THEN r
    ELSE IF SymOf(r, proc_sym).kind # "Struct" THEN Throw(r, "crash")
    ELSE add_generic_class_procedures_of(
             r, dt, SymOf(r, proc_sym).symtab,
             KeysInOrder(DOMAIN r.generic_class_procedures[dt]), 1)

RECURSIVE add_generic_class_procedures_loop(_, _, _)
add_generic_class_procedures_loop(r, dts, i) ==
    IF i > Len(dts) \/ r.out # "ok" THEN r
    ELSE add_generic_class_procedures_loop(
             add_generic_class_procedures_in(
                 r, dts[i],
                 SymbolTable_get_symbol(r, r.current_scope, dts[i])),
             dts, i + 1)

add_generic_class_procedures(r) ==
    add_generic_class_procedures_loop(
        r, KeysInOrder(DOMAIN r.generic_class_procedures), 1)

\* the declarations of a template, which are entity declarations
RECURSIVE Template_decls(_, _, _)
Template_decls(r, decl, i) ==
    IF i > Len(decl) \/ r.out # "ok" THEN r
    ELSE Template_decls(
             visit_Declaration(r, [name |-> decl[i].name,
                                   access |-> decl[i].access,
                                   storage |-> "Default", value |-> NullExpr]),
             decl, i + 1)

\* every name of the namelist, in lowercase, is declared in the template
Template_args_declared(r, namelist) ==
    \A i \in 1..Len(namelist) :
        SymbolTable_get_symbol(r, r.current_scope, to_lower(namelist[i])) # 0

\* make_Template_t over the scope, added to the parent scope under x.m_name
Template_made(r, x, parent_scope, scope) ==
    IF r.out # "ok" THEN r
    ELSE assign(
             assign(
                 add_tmp(
                     make_symbol(r, [kind |-> "Template", name |-> x.name,
                                     symtab |-> scope,
                                     args |-> LowerAll(x.namelist)]),
                     parent_scope, x.name),
                 "current_scope", parent_scope),
             "class_procedures", <<>>)

\* the template after its declarations
Template_declared(r, x, parent_scope, scope) ==
    IF r.out # "ok" THEN r
    ELSE IF ~Template_args_declared(r, x.namelist) THEN SemanticError(r)
    ELSE Template_made(add_class_procedures(r), x, parent_scope, scope)

\* SymbolTableVisitor::visit_Template of a template without requirements
\* and contained procedures.  x: [name, namelist, decl]
SymbolTableVisitor_visit_Template(r, x) ==
    assign(Template_declared(Template_decls(enter_scope(r), x.decl, 1), x,
                             r.current_scope, new_symtab(r)),
           "dflt_access", r.dflt_access)

\* m[key], an empty vector where the map has no such key
vector_at(m, key) == IF key \in DOMAIN m THEN m[key] ELSE <<>>

\* m[key].push_back of each value: without values the map stays as it is
pushed_back(m, key, values) ==
    IF values = <<>> THEN m ELSE (key :> (vector_at(m, key) \o values)) @@ m

\* class_procedures[dt_name][use_sym_name][key] = info
class_procedure_put(cp, dt_name, use_sym_name, key, info) ==
    (dt_name :> ((use_sym_name :>
                     ((key :> info)
                          @@ vector_at(vector_at(cp, dt_name), use_sym_name)))
                     @@ vector_at(cp, dt_name))) @@ cp

\* cdf[dt_name][use_sym_name][attr] = loc, for each attr; with no attr the
\* map stays as it is
class_attributes_put(cdf, dt_name, use_sym_name, attrs) ==
    IF attrs = {} THEN cdf
    ELSE (dt_name :> ((use_sym_name :>
                          (attrs \cup
                              IF has_attribute_entry(cdf, dt_name, use_sym_name)
                              THEN cdf[dt_name][use_sym_name] ELSE {}))
                          @@ vector_at(cdf, dt_name))) @@ cdf

\* the "pass" entry of a binding, where the binding has a pass attribute
class_pass_put(cp, dt_name, use_sym_name, pass) ==
    IF pass = <<>> THEN cp
    ELSE class_procedure_put(cp, dt_name, use_sym_name, "pass",
                             [name |-> pass[1]])

\* visit_DerivedTypeProc of `procedure, attr :: name => proc`.
\* x: [name, proc, pass, attr]; pass is <<>> or <<n>> for pass(n)
visit_DerivedTypeProc(r, dt_name, x) ==
    [r EXCEPT
        !.class_procedures =
            class_pass_put(
                class_procedure_put(@, dt_name, to_lower(x.name), "procedure",
                                    [name |-> to_lower(x.proc)]),
                dt_name, to_lower(x.name), x.pass),
        !.class_deferred_procedures =
            class_attributes_put(@, dt_name, to_lower(x.name), x.attr)]

\* visit_GenericName of `generic :: name => names`: the names join
\* generic_class_procedures[dt_name][name].  x: [name, names]
visit_GenericName(r, dt_name, x) ==
    IF x.names = <<>> THEN r
    ELSE [r EXCEPT !.generic_class_procedures =
             (dt_name :> pushed_back(vector_at(@, dt_name), to_lower(x.name),
                                     [i \in 1..Len(x.names) |->
                                         to_lower(x.names[i])])) @@ @]

\* visit_procedure_decl: the dispatch on the kind of the statement
visit_procedure_decl(r, dt_name, x) ==
    CASE x.kind = "DerivedTypeProc" -> visit_DerivedTypeProc(r, dt_name, x)
      [] x.kind = "GenericName" -> visit_GenericName(r, dt_name, x)

\* the components of a derived type: a SemanticAbort leaves with
\* current_scope back at the parent scope
RECURSIVE DerivedType_items(_, _, _, _)
DerivedType_items(r, parent_scope, items_, i) ==
    IF r.out = "SemanticAbort" THEN [r EXCEPT !.current_scope = parent_scope]
    ELSE IF i > Len(items_) \/ r.out # "ok" THEN r
    ELSE DerivedType_items(
             visit_Declaration(r, [name |-> items_[i].name,
                                   access |-> items_[i].access,
                                   storage |-> "Default", value |-> NullExpr]),
             parent_scope, items_, i + 1)

\* the type-bound procedure statements of a derived type
RECURSIVE DerivedType_contains(_, _, _, _)
DerivedType_contains(r, dt_name, contains, i) ==
    IF i > Len(contains) \/ r.out # "ok" THEN r
    ELSE DerivedType_contains(visit_procedure_decl(r, dt_name, contains[i]),
                              dt_name, contains, i + 1)

\* the Struct joins the parent scope
DerivedType_added(r, parent_scope, sym_name) ==
    assign(IF r.implicit_typing
               THEN add_or_overwrite_tmp(r, parent_scope, sym_name)
               ELSE add_tmp(r, parent_scope, sym_name),
           "current_scope", parent_scope)

\* make_Struct_t over the scope of the type, whose own scope must not hold
\* the type's name
DerivedType_made(r, parent_scope, sym_name) ==
    IF r.out # "ok" THEN r
    ELSE IF SymbolTable_get_symbol(r, r.current_scope, sym_name) # 0
        THEN SemanticError(r)
    ELSE DerivedType_added(
             make_symbol(r, [kind |-> "Struct", name |-> sym_name,
                             symtab |-> r.current_scope, parent |-> 0,
                             access |-> r.dflt_access]),
             parent_scope, sym_name)

\* visit_DerivedType of a type that extends no other.
\* x: [name, items, contains]
visit_DerivedType(r, x) ==
    DerivedType_made(
        DerivedType_contains(
            DerivedType_items(enter_scope(r), r.current_scope, x.items, 1),
            to_lower(x.name), x.contains, 1),
        r.current_scope, to_lower(x.name))

\* a declaration whose type is `procedure(...)`
is_procedure_decl(x) ==
    x.kind = "Declaration" /\ "vartype" \in DOMAIN x
        /\ x.vartype = "TypeProcedure"

\* the declaration `procedure(name) :: x`: a Variable whose type
\* declaration is what the interface's name resolves to
visit_ProcedureDeclaration(r, x) ==
    IF SymbolTable_get_symbol(r, r.current_scope, to_lower(x.name)) # 0
        THEN SemanticError(r)
        ELSE add_tmp(
                 make_symbol(r, [kind |-> "Variable",
                                 name |-> to_lower(x.name),
                                 parent_symtab |-> r.current_scope,
                                 access |-> x.access,
                                 type |-> Type([base |-> "FunctionType"]),
                                 type_declaration |->
                                     SymbolTable_resolve_symbol(
                                         r, r.current_scope,
                                         to_lower(x.m_name))]),
                 r.current_scope, to_lower(x.name))

\* visit_unit_decl2: the dispatch on the declaration's kind
visit_unit_decl2(r, x) ==
    CASE is_procedure_decl(x) -> visit_ProcedureDeclaration(r, x)
      [] x.kind = "Declaration" /\ ~is_procedure_decl(x) ->
             visit_Declaration(r, [name |-> x.name, access |-> x.access,
                                   storage |-> "Default", value |-> NullExpr])
      [] x.kind = "Template" -> SymbolTableVisitor_visit_Template(r, x)
      [] x.kind = "Interface" -> visit_Interface(r, x)
      [] x.kind = "Enum" -> SymbolTableVisitor_visit_Enum(r, x)
      [] x.kind = "DerivedType" -> visit_DerivedType(r, x)

RECURSIVE visit_decls(_, _, _)
visit_decls(r, decl, i) ==
    IF i > Len(decl) \/ r.out # "ok" THEN r
    ELSE visit_decls(Catch(visit_unit_decl2(r, decl[i])), decl, i + 1)

\* visit_program_unit over the contained procedures
RECURSIVE visit_contains(_, _, _)
visit_contains(r, contains, i) ==
    IF i > Len(contains) \/ r.out # "ok" THEN r
    ELSE visit_contains(visit_Subroutine(r, contains[i]), contains, i + 1)

\* the new scope of a program unit, with nothing collected in it yet
enter_unit(r) ==
    [enter_scope(r) EXCEPT !.current_module_dependencies = <<>>,
                           !.generic_procedures = <<>>]

\* the use statements, the declarations and the contained procedures
visit_unit(r, x) ==
    visit_contains(visit_decls(visit_uses(r, x.use, 1), x.decl, 1),
                   x.contains, 1)

\* the Module is added under its name, which must be free
Module_added(r, parent_scope, sym_name, m) ==
    IF SymbolTable_get_symbol(r, parent_scope, sym_name) # 0
        THEN SemanticError(r)
        ELSE add_symbol(r, parent_scope, sym_name, m)

\* the Module m gets its dependencies and joins the parent scope
Module_defined(r, parent_scope, sym_name, m) ==
    IF r.out # "ok" THEN r
    ELSE assign(
             assign(
                 Module_added(
                     [r EXCEPT !.syms[m].deps = r.current_module_dependencies],
                     parent_scope, sym_name, m),
                 "current_scope", parent_scope),
             "dflt_access", "Public")

\* what the visit of a module adds once its procedures are known
Module_finalized(r) ==
    add_assignment_procedures(
        add_generic_class_procedures(
            add_class_procedures(
                add_overloaded_procedures(add_generic_procedures(r)))))

\* x: [name, use, decl, contains], a module that is no submodule
visit_ModuleSubmoduleCommon(r, x) ==
    Module_defined(
        Module_finalized(
            visit_unit(
                make_symbol([enter_unit(r) EXCEPT !.class_procedures = <<>>,
                                                  !.assgn_proc_names = <<>>],
                            [kind |-> "Module", name |-> to_lower(x.name),
                             symtab |-> new_symtab(r)]),
                x)),
        r.current_scope, to_lower(x.name), Len(r.syms) + 1)

\* SymbolTableVisitor::visit_Module, implicit typing being off
SymbolTableVisitor_visit_Module(r, x) == visit_ModuleSubmoduleCommon(r, x)

\* the Program joins the parent scope after its generics
Program_added(r, parent_scope, sym_name, tmp) ==
    IF r.out # "ok" THEN r
    ELSE assign(add_symbol(r, parent_scope, sym_name, tmp),
                "current_scope", parent_scope)

\* the Program made, its name must be free in the parent scope
Program_made(r, parent_scope, sym_name) ==
    IF SymbolTable_get_symbol(r, parent_scope, sym_name) # 0
        THEN SemanticError(r)
        ELSE Program_added(add_generic_procedures(r), parent_scope, sym_name,
                           r.tmp)

\* make_Program_t over the unit's scope and dependencies
Program_visited(r, parent_scope, scope, sym_name) ==
    IF r.out # "ok" THEN r
    ELSE Program_made(
             make_symbol(r, [kind |-> "Program", name |-> sym_name,
                             symtab |-> scope,
                             deps |-> r.current_module_dependencies]),
             parent_scope, sym_name)

\* the declarations of a program but for the procedure declarations,
\* whose indices procedure_decl_indices keeps
RECURSIVE Program_decls(_, _, _)
Program_decls(r, decl, i) ==
    IF i > Len(decl) \/ r.out # "ok" THEN r
    ELSE IF is_procedure_decl(decl[i]) THEN Program_decls(r, decl, i + 1)
    ELSE Program_decls(Catch(visit_unit_decl2(r, decl[i])), decl, i + 1)

\* the loop over procedure_decl_indices
RECURSIVE Program_procedure_decls(_, _, _)
Program_procedure_decls(r, decl, i) ==
    IF i > Len(decl) \/ r.out # "ok" THEN r
    ELSE IF is_procedure_decl(decl[i])
        THEN Program_procedure_decls(Catch(visit_unit_decl2(r, decl[i])),
                                     decl, i + 1)
    ELSE Program_procedure_decls(r, decl, i + 1)

\* the use statements, the declarations, the contained procedures and the
\* procedure declarations of a program
Program_unit(r, x) ==
    Program_procedure_decls(
        visit_contains(Program_decls(visit_uses(r, x.use, 1), x.decl, 1),
                       x.contains, 1),
        x.decl, 1)

\* SymbolTableVisitor::visit_Program.  x: [name, use, decl, contains]
SymbolTableVisitor_visit_Program(r, x) ==
    Program_visited(Program_unit(enter_unit(r), x), r.current_scope,
                    new_symtab(r), to_lower(x.name))

(***************************************************************************)
(* ENTRY statements.  A procedure x is [kind, name, args, body, scope]:    *)
(* body holds Entry statements [kind, name, args] among others, scope is   *)
(* the procedure's table, which declares its dummy arguments.              *)
(***************************************************************************)
\* entry_functions[subroutine_name][entry_name] = std::vector<stmt_t*>()
entry_registered(efs, subroutine_name, entry_name) ==
    (subroutine_name :> ((entry_name :> <<>>)
                            @@ vector_at(efs, subroutine_name))) @@ efs

\* the statement i joins the statements of every entry of the procedure
entry_bodies_pushed(efs, subroutine_name, i) ==
    [efs EXCEPT ![subroutine_name] = [e \in DOMAIN @ |-> Append(@[e], i)]]

RECURSIVE entry_function_scan(_, _, _, _, _)
entry_function_scan(r, subroutine_name, body, i, contains) ==
    IF i > Len(body) THEN r
    ELSE IF body[i].kind = "Entry"
        THEN entry_function_scan(
                 [r EXCEPT !.entry_functions =
                               entry_registered(@, subroutine_name,
                                                to_lower(body[i].name)),
                           !.entry_function_args =
                               pushed_back(@, to_lower(body[i].name),
                                           body[i].args)],
                 subroutine_name, body, i + 1, TRUE)
    ELSE IF contains
        THEN entry_function_scan(
                 [r EXCEPT !.entry_functions =
                               entry_bodies_pushed(@, subroutine_name, i)],
                 subroutine_name, body, i + 1, contains)
    ELSE entry_function_scan(r, subroutine_name, body, i + 1, contains)

\* what subroutine_contains_entry_function returns
contains_entry_function(body) ==
    \E i \in 1..Len(body) : body[i].kind = "Entry"

\* what subroutine_contains_entry_function leaves in the maps
subroutine_contains_entry_function(r, subroutine_name, body) ==
    IF r.out # "ok" THEN r
    ELSE entry_function_scan(r, subroutine_name, body, 1, FALSE)

\* the entries of a procedure, in the order the map iterates
entry_names(r, sym_name) ==
    KeysInOrder(DOMAIN vector_at(r.entry_functions, sym_name))

\* the arguments of the entries, one entry after the other
RECURSIVE entry_arg_names(_, _, _)
entry_arg_names(r, names, i) ==
    IF i > Len(names) THEN <<>>
    ELSE vector_at(r.entry_function_args, names[i])
             \o entry_arg_names(r, names, i + 1)

\* arg_names_unique: entry__lcompilers before the std::set of the names
arg_names_unique(r, x, sym_name) ==
    <<"entry__lcompilers">>
        \o KeysInOrder(SeqToSet(x.args \o entry_arg_names(
                                               r, entry_names(r, sym_name), 1)))

\* std::distance(begin, std::find(begin, end, arg))
index_of(names, arg) ==
    (CHOOSE i \in 1..Len(names) :
         names[i] = arg /\ \A j \in 1..(i - 1) : names[j] # arg) - 1

indices_of(names, args) == [i \in 1..Len(args) |-> index_of(names, args[i])]

\* the second loop of perform_argument_mapping, over the entries
RECURSIVE entries_mapped(_, _, _, _)
entries_mapped(r, unique, names, i) ==
    IF i > Len(names) THEN r
    ELSE entries_mapped(
             [r EXCEPT !.entry_function_arguments_mapping =
                 pushed_back(@, names[i],
                     indices_of(unique,
                                vector_at(r.entry_function_args, names[i])))],
             unique, names, i + 1)

\* the first loop, over the arguments of the procedure itself
arguments_mapped(r, x, sym_name, unique) ==
    entries_mapped(
        [r EXCEPT !.entry_function_arguments_mapping =
            pushed_back(@, sym_name, indices_of(unique, x.args))],
        unique, entry_names(r, sym_name), 1)

\* what perform_argument_mapping leaves in the mapping; it returns
\* arg_names_unique as the master's arguments
perform_argument_mapping(r, x, sym_name) ==
    IF r.out # "ok" THEN r
    ELSE arguments_mapped(r, x, sym_name, arg_names_unique(r, x, sym_name))

\* SymbolDuplicator::duplicate_symbol of each symbol of the old scope into
\* the current one
RECURSIVE duplicate_symbols(_, _, _, _)
duplicate_symbols(r, old_scope, keys, i) ==
    IF i > Len(keys) \/ r.out # "ok" THEN r
    ELSE duplicate_symbols(
             add_tmp(make_symbol(r, [SymOf(r, TabOf(r, old_scope).scope[keys[i]])
                                        EXCEPT !.parent_symtab = r.current_scope]),
                     r.current_scope, keys[i]),
             old_scope, keys, i + 1)

\* the integer variable entry__lcompilers of a master function
entry_lcompilers_declared(r, is_master) ==
    IF r.out # "ok" \/ ~is_master THEN r
    ELSE add_tmp(make_symbol(r, [kind |-> "Variable",
                                 name |-> "entry__lcompilers",
                                 parent_symtab |-> r.current_scope,
                                 intent |-> "In"]),
                 r.current_scope, "entry__lcompilers")

\* the arguments as the Vars of the current scope's symbols
template_args(r, vector_args) ==
    [i \in 1..Len(vector_args) |->
        SymbolTable_get_symbol(r, r.current_scope, to_lower(vector_args[i]))]

\* the return variable of an entry of a function, made where the name
\* resolves to nothing
template_return_var(r, function_name, is_function, return_var) ==
    IF return_var # 0 \/ ~is_function THEN [r EXCEPT !.tmp = return_var]
    ELSE add_tmp(make_symbol(r, [kind |-> "Variable", name |-> function_name,
                                 parent_symtab |-> r.current_scope,
                                 intent |-> "ReturnVar"]),
                 r.current_scope, function_name)

\* the dummy arguments of the new function lose their intent
template_intents(r, scope, names) ==
    IF r.out # "ok" THEN r
    ELSE [r EXCEPT !.syms =
             [s \in 1..Len(@) |->
                 IF @[s].kind = "Variable" /\ @[s].parent_symtab = scope
                      /\ @[s].name \in names
                     THEN [@[s] EXCEPT !.intent = "Unspecified"] ELSE @[s]]]

\* make_Function_t_util over the arguments, added to the parent scope
template_function(r, function_name, args, parent_scope, scope) ==
    IF r.out # "ok" THEN r
    ELSE add_tmp(make_symbol(r, [kind |-> "Function",
                                 name |-> to_lower(function_name),
                                 symtab |-> scope, args |-> args,
                                 return_var |-> r.tmp,
                                 type |-> Type([base |-> "FunctionType"]),
                                 access |-> r.dflt_access]),
                 parent_scope, function_name)

\* an alternate return and an argument the scope does not declare are
\* Errors
template_made(r, function_name, vector_args, is_function, parent_scope, scope) ==
    IF r.out # "ok" THEN r
    ELSE IF has_alternate_return(vector_args) THEN SemanticError(r)
    ELSE IF \E i \in 1..Len(vector_args) : template_args(r, vector_args)[i] = 0
        THEN SemanticError(r)
    ELSE template_intents(
             template_function(
                 template_return_var(r, function_name, is_function,
                     SymbolTable_resolve_symbol(r, r.current_scope,
                                                function_name)),
                 function_name, template_args(r, vector_args), parent_scope,
                 scope),
             scope, SeqToSet(LowerAll(vector_args)))

\* create_template_entry_function, implicit typing being off
create_template_entry_function(r, function_name, vector_args, is_master, is_function) ==
    IF r.out # "ok" THEN r
    ELSE assign(
             template_made(
                 entry_lcompilers_declared(
                     duplicate_symbols(
                         [make_new_SymbolTable(
                              r, TabOf(r, r.current_scope).parent)
                             EXCEPT !.current_scope = new_symtab(r)],
                         r.current_scope, ScopeKeys(r, r.current_scope), 1),
                     is_master),
                 function_name, vector_args, is_function,
                 TabOf(r, r.current_scope).parent, new_symtab(r)),
             "current_scope", r.current_scope)

\* a template function for each entry of the procedure
RECURSIVE entry_templates(_, _, _, _)
entry_templates(r, names, i, is_function) ==
    IF i > Len(names) \/ r.out # "ok" THEN r
    ELSE entry_templates(
             create_template_entry_function(
                 r, names[i], vector_at(r.entry_function_args, names[i]),
                 FALSE, is_function),
             names, i + 1, is_function)

\* the master function over the arguments perform_argument_mapping returns
master_template(r, x, sym_name) ==
    create_template_entry_function(
        perform_argument_mapping(r, x, sym_name),
        sym_name \o "_main__lcompilers", arg_names_unique(r, x, sym_name),
        TRUE, x.kind = "Function")

\* the end of visit_Subroutine and of visit_Function: the entries of the
\* procedure and its master; visit_Subroutine alone clears
\* entry_function_args.  Then the scope is left.
Procedure_entries(r, x, sym_name) ==
    assign(
        IF x.kind = "Subroutine"
            THEN assign(
                     IF contains_entry_function(x.body)
                         THEN master_template(
                                  entry_templates(r, entry_names(r, sym_name),
                                                  1, FALSE),
                                  x, sym_name)
                         ELSE r,
                     "entry_function_args", <<>>)
        ELSE IF contains_entry_function(x.body)
            THEN master_template(
                     entry_templates(r, entry_names(r, sym_name), 1, TRUE),
                     x, sym_name)
        ELSE r,
        "current_scope", TabOf(r, r.current_scope).parent)

Procedure_scanned(r, x, sym_name) ==
    Procedure_entries(subroutine_contains_entry_function(r, sym_name, x.body),
                      x, sym_name)

\* visit_ast of one item of the AST's TranslationUnit
SymbolTableVisitor_visit_ast(r, x) ==
    CASE x.kind = "Module" -> SymbolTableVisitor_visit_Module(r, x)
      [] x.kind = "Program" -> SymbolTableVisitor_visit_Program(r, x)
      [] x.kind = "Subroutine" -> visit_Subroutine(r, x)

\* the visit under the catch of visit_TranslationUnit
visit_item(r, x) == Catch(SymbolTableVisitor_visit_ast(r, x))

(***************************************************************************)
(* Input units.  A unit is an arena and the items of its TranslationUnit.  *)
(***************************************************************************)
RECURSIVE SeqsUpTo(_, _)
SeqsUpTo(S, n) ==
    IF n = 0 THEN {<<>>}
    ELSE LET shorter == SeqsUpTo(S, n - 1)
         IN  shorter \cup {Append(q, e) : q \in {r \in shorter : Len(r) = n - 1}, e \in S}

SubroutineCall(name, args) ==
    Stmt([k |-> "SubroutineCall", name |-> name, args |-> args])

BlockCall(m) == Stmt([k |-> "BlockCall", m |-> m])

Assignment(target, value) ==
    Stmt([k |-> "Assignment", target |-> target, value |-> value])

FunctionCall(name, args) ==
    Expr([k |-> "FunctionCall", v |-> name, args |-> args, ty |-> DefaultType])

FunctionType(n) == Type([base |-> "FunctionType", arg_types |-> n])

\* A Program p holding the Functions f, g and r; g has the formals a and c,
\* r returns rv; f holds the nested Function h, the Block b and the
\* Variable x.
CallUnit(q) ==
    [ tables |-> <<
        Table([counter |-> U64(0, 1), owner |-> TU, scope |-> ("p" :> 1)]),
        Table([counter |-> U64(0, 2), parent |-> 1, owner |-> 1,
               scope |-> ("f" :> 2 @@ "g" :> 3 @@ "r" :> 8)]),
        Table([counter |-> U64(0, 3), parent |-> 2, owner |-> 2,
               scope |-> ("h" :> 4 @@ "b" :> 5 @@ "x" :> 10)]),
        Table([counter |-> U64(0, 4), parent |-> 2, owner |-> 3,
               scope |-> ("a" :> 6 @@ "c" :> 7)]),
        Table([counter |-> U64(0, 5), parent |-> 3, owner |-> 4]),
        Table([counter |-> U64(0, 6), parent |-> 3, owner |-> 5]),
        Table([counter |-> U64(0, 7), parent |-> 2, owner |-> 8, scope |-> ("r" :> 9)]) >>,
      syms |-> <<
        Sym([kind |-> "Program", name |-> "p", symtab |-> 2]),
        Sym([kind |-> "Function", name |-> "f", symtab |-> 3,
             type |-> FunctionType(0), deps |-> q.f_deps, body |-> q.f_body]),
        Sym([kind |-> "Function", name |-> "g", symtab |-> 4,
             type |-> FunctionType(2), args |-> <<6, 7>>]),
        Sym([kind |-> "Function", name |-> "h", symtab |-> 5,
             type |-> FunctionType(0), deps |-> q.h_deps, body |-> q.h_body]),
        Sym([kind |-> "Block", name |-> "b", symtab |-> 6, body |-> q.b_body]),
        Sym([kind |-> "Variable", name |-> "a", parent_symtab |-> 4,
             intent |-> "In"]),
        Sym([kind |-> "Variable", name |-> "c", parent_symtab |-> 4,
             intent |-> "In", presence |-> q.c_presence]),
        Sym([kind |-> "Function", name |-> "r", symtab |-> 7,
             type |-> FunctionType(0), return_var |-> 9]),
        Sym([kind |-> "Variable", name |-> "r", parent_symtab |-> 7,
             intent |-> "ReturnVar"]),
        Sym([kind |-> "Variable", name |-> "x", parent_symtab |-> 3]) >>,
      items |-> <<>> ]

FullArgs == <<-1, -1>>

FBodies ==
    { <<>>, <<SubroutineCall(3, FullArgs)>>, <<BlockCall(5)>>,
      <<SubroutineCall(4, <<>>)>>,
      <<SubroutineCall(3, FullArgs), BlockCall(5)>>,
      <<Assignment(Var(10), FunctionCall(8, <<>>))>> }

BBodies == { <<>>, <<SubroutineCall(3, FullArgs)>>, <<SubroutineCall(4, <<>>)>> }

HBodies == { <<>>, <<SubroutineCall(3, FullArgs)>>, <<SubroutineCall(2, <<>>)>> }

\* units that differ in the calls made and in the stored dependency lists
DepUnits ==
    { CallUnit([f_deps |-> fd, h_deps |-> hd, f_body |-> fb, b_body |-> bb,
                h_body |-> hb, c_presence |-> "Required"]) :
        fd \in SeqsUpTo({"g", "r"}, MaxDeps),
        hd \in SeqsUpTo({"g", "f"}, MaxDeps),
        fb \in FBodies, bb \in BBodies, hb \in HBodies }

\* A Program p holding the Functions f and g; f holds the nested Function
\* h and the Block b, which holds the Block or AssociateBlock c.
NestedUnit(q) ==
    [ tables |-> <<
        Table([counter |-> U64(0, 1), owner |-> TU, scope |-> ("p" :> 1)]),
        Table([counter |-> U64(0, 2), parent |-> 1, owner |-> 1,
               scope |-> ("f" :> 2 @@ "g" :> 3)]),
        Table([counter |-> U64(0, 3), parent |-> 2, owner |-> 2,
               scope |-> ("h" :> 4 @@ "b" :> 5)]),
        Table([counter |-> U64(0, 4), parent |-> 2, owner |-> 3]),
        Table([counter |-> U64(0, 5), parent |-> 3, owner |-> 4]),
        Table([counter |-> U64(0, 6), parent |-> 3, owner |-> 5,
               scope |-> ("c" :> 6)]),
        Table([counter |-> U64(0, 7), parent |-> 6, owner |-> 6]) >>,
      syms |-> <<
        Sym([kind |-> "Program", name |-> "p", symtab |-> 2]),
        Sym([kind |-> "Function", name |-> "f", symtab |-> 3,
             type |-> FunctionType(0), deps |-> q.f_deps,
             body |-> <<BlockCall(5)>>]),
        Sym([kind |-> "Function", name |-> "g", symtab |-> 4,
             type |-> FunctionType(0)]),
        Sym([kind |-> "Function", name |-> "h", symtab |-> 5,
             type |-> FunctionType(0)]),
        Sym([kind |-> "Block", name |-> "b", symtab |-> 6, body |-> q.b_body]),
        Sym([kind |-> q.c_kind, name |-> "c", symtab |-> 7,
             body |-> q.c_body]) >>,
      items |-> <<>> ]

\* units that differ in the calls made two scopes below the Function f
NestedUnits ==
    { NestedUnit([f_deps |-> fd, b_body |-> bb, c_body |-> cb, c_kind |-> ck]) :
        fd \in SeqsUpTo({"g", "h"}, MaxDeps),
        bb \in { <<>>, <<SubroutineCall(4, <<>>)>> },
        cb \in { <<>>, <<SubroutineCall(3, <<>>)>>, <<SubroutineCall(4, <<>>)>> },
        ck \in {"Block", "AssociateBlock"} }

\* units that differ in the argument slots of one call of g
ArgUnits ==
    { CallUnit([f_deps |-> <<"g">>, h_deps |-> <<>>,
                f_body |-> <<SubroutineCall(3, args)>>, b_body |-> <<>>,
                h_body |-> <<>>, c_presence |-> cp]) :
        args \in SeqsUpTo({0, -1}, MaxCallArgs + 1),
        cp \in {"Required", "Optional"} }

\* The orphan table: a table of the arena that no node of the unit owns
Orphan == 12

DefaultCounters == [i \in 1..12 |-> U64(0, i)]

\* A unit with a node of every table-owning kind: Module m with Struct s,
\* Enum e, Union u, Requirement q, Template t, Function f, the
\* GenericProcedure gp, the CustomOperator op and the Variable n; Program p
\* with Block b, AssociateBlock a, Variable v and the ExternalSymbol f.
ScopeUnit(q) ==
    [ tables |-> <<
        Table([counter |-> q.counters[1], owner |-> TU,
               scope |-> ("m" :> 1 @@ "p" :> 2)]),
        Table([counter |-> q.counters[2], parent |-> 1, owner |-> 1,
               scope |-> ("s" :> 3 @@ "e" :> 4 @@ "u" :> 5 @@ "q" :> 6
                          @@ "t" :> 7 @@ "f" :> 8 @@ "gp" :> 9 @@ "op" :> 10
                          @@ "n" :> 18)]),
        Table([counter |-> q.counters[3], parent |-> 1, owner |-> 2,
               scope |-> ("b" :> 11 @@ "a" :> 12 @@ "v" :> 13 @@ "f" :> 14)]),
        Table([counter |-> q.counters[4], parent |-> 2, owner |-> 3,
               scope |-> ("k" :> 15 @@ "sm" :> 16)]),
        Table([counter |-> q.counters[5], parent |-> 2, owner |-> 4,
               scope |-> ("e1" :> 17)]),
        Table([counter |-> q.counters[6], parent |-> 2, owner |-> 5]),
        Table([counter |-> q.counters[7], parent |-> 2, owner |-> 6]),
        Table([counter |-> q.counters[8], parent |-> 2, owner |-> 7]),
        Table([counter |-> q.counters[9], parent |-> 2, owner |-> 8]),
        Table([counter |-> q.counters[10], parent |-> 3, owner |-> 11]),
        Table([counter |-> q.counters[11], parent |-> 3, owner |-> 12]),
        Table([counter |-> q.counters[12],
               scope |-> ("gp" :> 9 @@ "op" :> 10 @@ "v" :> 13 @@ "f" :> 14
                          @@ "sm" :> 16)]) >>,
      syms |-> <<
        Sym([kind |-> "Module", name |-> "m", symtab |-> 2]),
        Sym([kind |-> "Program", name |-> "p", symtab |-> 3, body |-> q.p_body]),
        Sym([kind |-> "Struct", name |-> "s", symtab |-> 4]),
        Sym([kind |-> "Enum", name |-> "e", symtab |-> 5, n_members |-> 1]),
        Sym([kind |-> "Union", name |-> "u", symtab |-> 6]),
        Sym([kind |-> "Requirement", name |-> "q", symtab |-> 7]),
        Sym([kind |-> "Template", name |-> "t", symtab |-> 8]),
        Sym([kind |-> "Function", name |-> "f", symtab |-> 9,
             type |-> FunctionType(0)]),
        Sym([kind |-> "GenericProcedure", name |-> "gp", procs |-> <<8>>,
             parent_symtab |-> q.gp_parent]),
        Sym([kind |-> "CustomOperator", name |-> "op", procs |-> <<8>>,
             parent_symtab |-> q.op_parent]),
        Sym([kind |-> "Block", name |-> "b", symtab |-> 10, body |-> q.b_body]),
        Sym([kind |-> "AssociateBlock", name |-> "a", symtab |-> 11]),
        Sym([kind |-> "Variable", name |-> "v", parent_symtab |-> q.v_parent]),
        Sym([kind |-> "ExternalSymbol", name |-> "f", external |-> 8,
             module_name |-> "m", original_name |-> "f",
             parent_symtab |-> q.es_parent]),
        Sym([kind |-> "Variable", name |-> "k", parent_symtab |-> 4]),
        Sym([kind |-> "StructMethodDeclaration", name |-> "sm", proc |-> 8,
             parent_symtab |-> q.sm_parent]),
        Sym([kind |-> "Variable", name |-> "e1", parent_symtab |-> 5,
             symbolic_value |-> IntegerConstant]),
        Sym([kind |-> "Variable", name |-> "n", parent_symtab |-> 2]) >>,
      items |-> <<>> ]

DefaultScopeUnit ==
    [ counters |-> DefaultCounters, p_body |-> <<>>, b_body |-> <<>>,
      gp_parent |-> 2, op_parent |-> 2, v_parent |-> 3, es_parent |-> 3,
      sm_parent |-> 4 ]

\* units in which table j has the counter of table i
DuplicateCounterUnits ==
    { ScopeUnit([counters |-> [DefaultCounters EXCEPT ![j] = DefaultCounters[i]]]
                @@ DefaultScopeUnit) : i \in 1..11, j \in 1..11 }

\* the bodies of Program p: a Var of the local v, of the ExternalSymbol f,
\* of the Module's n, of the Struct's k, and a call of Block b
PBodies ==
    { <<>>, <<Assignment(Var(13), IntegerConstant)>>,
      <<Assignment(Var(13), Var(14))>>,
      <<Assignment(Var(13), Var(18))>>,
      <<Assignment(Var(15), IntegerConstant)>>,
      <<BlockCall(11)>> }

\* units that differ in the upper half of the counter of Program p's table,
\* and in the Vars
WideCounterUnits ==
    { ScopeUnit([counters |-> [DefaultCounters EXCEPT ![3] = U64(hi, 3)],
                 p_body |-> pb, b_body |-> bb] @@ DefaultScopeUnit) :
        hi \in {0, 1}, pb \in PBodies,
        bb \in { <<>>, <<Assignment(Var(13), IntegerConstant)>> } }

\* units that differ in the tables the symbols name as their parent
ParentUnits ==
    { ScopeUnit([gp_parent |-> gp, op_parent |-> op, v_parent |-> v,
                 es_parent |-> es, sm_parent |-> sm] @@ DefaultScopeUnit) :
        gp \in {2, Orphan}, op \in {2, Orphan}, v \in {3, Orphan},
        es \in {3, Orphan}, sm \in {4, Orphan} }

\* Program p with the parameter c and the Block b, which holds the
\* parameter d.
AssignUnit(q) ==
    [ tables |-> <<
        Table([counter |-> U64(0, 1), owner |-> TU, scope |-> ("p" :> 1)]),
        Table([counter |-> U64(0, 2), parent |-> 1, owner |-> 1,
               scope |-> ("b" :> 2 @@ "c" :> 3)]),
        Table([counter |-> U64(0, 3), parent |-> 2, owner |-> 2,
               scope |-> ("d" :> 4)]) >>,
      syms |-> <<
        Sym([kind |-> "Program", name |-> "p", symtab |-> 2, body |-> q.p_body]),
        Sym([kind |-> "Block", name |-> "b", symtab |-> 3, body |-> q.b_body]),
        Sym([kind |-> "Variable", name |-> "c", parent_symtab |-> 2,
             storage |-> "Parameter"]),
        Sym([kind |-> "Variable", name |-> "d", parent_symtab |-> 3,
             storage |-> "Parameter"]) >>,
      items |-> <<>> ]

\* n Assignments with the Var of v as their target
RECURSIVE Assignments(_, _)
Assignments(v, n) ==
    IF n = 0 THEN <<>>
    ELSE Append(Assignments(v, n - 1), Assignment(Var(v), IntegerConstant))

\* units that differ in how often each parameter is assigned, and in
\* whether the Block's body is entered through a BlockCall
AssignUnits ==
    { AssignUnit([p_body |-> Assignments(3, np)
                                 \o (IF call THEN <<BlockCall(2)>> ELSE <<>>),
                  b_body |-> Assignments(v, nb)]) :
        np \in 0..2, nb \in 0..2, call \in BOOLEAN, v \in {3, 4} }

\* Program p with the Variable v of type ty
TypeUnit(ty, intent) ==
    [ tables |-> <<
        Table([counter |-> U64(0, 1), owner |-> TU, scope |-> ("p" :> 1)]),
        Table([counter |-> U64(0, 2), parent |-> 1, owner |-> 1,
               scope |-> ("v" :> 2)]) >>,
      syms |-> <<
        Sym([kind |-> "Program", name |-> "p", symtab |-> 2]),
        Sym([kind |-> "Variable", name |-> "v", parent_symtab |-> 2,
             type |-> ty, intent |-> intent]) >>,
      items |-> <<>> ]

LengthKinds ==
    {"ExpressionLength", "AssumedLength", "DeferredLength", "ImplicitLength"}

\* the values a string_physical_typeType field can hold: the two the
\* verifier knows and one it does not
PhysicalTypes == StringPhysicalTypes \cup {"OtherPhysicalType"}

TypeUnits ==
    { TypeUnit(Type([wrap |-> w, base |-> b, phys |-> ph, len_kind |-> lk,
                     has_len |-> hl]), intent) :
        w \in { <<>>, <<"Allocatable">>, <<"Pointer">>, <<"Array">>,
                <<"Allocatable", "Array">>, <<"Pointer", "Allocatable">>,
                <<"Pointer", "Array", "Allocatable">>,
                <<"Allocatable", "Array", "Pointer">> },
        b \in {"Integer", "String"}, ph \in PhysicalTypes,
        lk \in LengthKinds, hl \in BOOLEAN, intent \in {"Local", "In"} }

\* Modules m1, m2 and m3.  m1 holds the Functions f and g and the
\* ExternalSymbols k (of m2's k) and h (of m3's h); f holds the
\* ExternalSymbol g of m1's own g.
ModUnit(q) ==
    [ tables |-> <<
        Table([counter |-> U64(0, 1), owner |-> TU,
               scope |-> ("m1" :> 1 @@ "m2" :> 2 @@ "m3" :> 3)]),
        Table([counter |-> U64(0, 2), parent |-> 1, owner |-> 1,
               scope |-> ("f" :> 4 @@ "g" :> 6 @@ "k" :> 5 @@ "h" :> 10)]),
        Table([counter |-> U64(0, 3), parent |-> 1, owner |-> 2,
               scope |-> ("k" :> 7)]),
        Table([counter |-> U64(0, 4), parent |-> 1, owner |-> 3,
               scope |-> ("h" :> 8)]),
        Table([counter |-> U64(0, 5), parent |-> 2, owner |-> 4,
               scope |-> ("g" :> 9)]),
        Table([counter |-> U64(0, 6), parent |-> 2, owner |-> 6]),
        Table([counter |-> U64(0, 7), parent |-> 3, owner |-> 7]),
        Table([counter |-> U64(0, 8), parent |-> 4, owner |-> 8]) >>,
      syms |-> <<
        Sym([kind |-> "Module", name |-> "m1", symtab |-> 2, deps |-> q.deps]),
        Sym([kind |-> "Module", name |-> "m2", symtab |-> 3]),
        Sym([kind |-> "Module", name |-> "m3", symtab |-> 4]),
        Sym([kind |-> "Function", name |-> "f", symtab |-> 5,
             type |-> FunctionType(0), body |-> q.f_body]),
        Sym([kind |-> "ExternalSymbol", name |-> "k", parent_symtab |-> 2,
             external |-> 7, module_name |-> "m2", original_name |-> "k"]),
        Sym([kind |-> "Function", name |-> "g", symtab |-> 6,
             type |-> FunctionType(0)]),
        Sym([kind |-> "Function", name |-> "k", symtab |-> 7,
             type |-> FunctionType(0)]),
        Sym([kind |-> "Function", name |-> "h", symtab |-> 8,
             type |-> FunctionType(0)]),
        Sym([kind |-> "ExternalSymbol", name |-> "g", parent_symtab |-> 5,
             external |-> 6, module_name |-> "m1", original_name |-> "g"]),
        Sym([kind |-> "ExternalSymbol", name |-> "h", parent_symtab |-> 2,
             external |-> 8, module_name |-> "m3", original_name |-> "h"]) >>,
      items |-> <<>> ]

\* units that differ in the calls f makes through the ExternalSymbols and
\* in the dependency list m1 stores
ModUnits ==
    { ModUnit([deps |-> d, f_body |-> fb]) :
        d \in SeqsUpTo({"m2", "m3"}, MaxDeps),
        fb \in { <<>>, <<SubroutineCall(5, <<>>)>>, <<SubroutineCall(10, <<>>)>>,
                 <<SubroutineCall(5, <<>>), SubroutineCall(10, <<>>)>>,
                 <<SubroutineCall(9, <<>>)>>,
                 <<SubroutineCall(9, <<>>), SubroutineCall(5, <<>>)>> } }

\* The ASTs the resolver is run on.  A use statement of the module m:
Use(m, only_present, symbols) ==
    [module |-> m, only_present |-> only_present, symbols |-> symbols]

UseSymbol(remote_sym, local_rename) ==
    [remote_sym |-> remote_sym, local_rename |-> local_rename]

\* `use m`, `use m, only: ...` and `use m, z => f`
UseForms(m) ==
    {Use(m, FALSE, <<>>), Use(m, FALSE, <<UseSymbol("f", "z")>>)}
    \cup { Use(m, TRUE, <<y>>) :
             y \in { UseSymbol("f", ""), UseSymbol("F", ""), UseSymbol("x", ""),
                     UseSymbol("gp", ""), UseSymbol("e1", ""),
                     UseSymbol("f", "z"), UseSymbol("f", m) } }

\* a subroutine without dummy arguments; access stands for the entry of
\* assgnd_access under its name, "" for none
Subroutine(name) ==
    [kind |-> "Subroutine", name |-> name, access |-> "", temp_args |-> <<>>,
     args |-> <<>>]

SubroutineWith(x) == x @@ Subroutine(x.name)

\* module a: the variable x, the subroutines f and g, and at will the
\* generic gp and an enum with the enumerator e1
ModuleA(access, names, enum) ==
    [ kind |-> "Module", name |-> "a", use |-> <<>>,
      decl |-> <<[kind |-> "Declaration", name |-> "x", access |-> access]>>
               \o (IF names = <<>> THEN <<>>
                   ELSE <<[kind |-> "Interface", name |-> "gp", names |-> names]>>)
               \o (IF enum THEN <<[kind |-> "Enum", attr |-> "bind(c)",
                                   items |-> <<"e1">>]>>
                   ELSE <<>>),
      contains |-> <<Subroutine("f"), Subroutine("g")>> ]

\* module b: its uses and, at will, its own generic gp of the subroutine k
ModuleB(use, generic) ==
    [ kind |-> "Module", name |-> "b", use |-> use,
      decl |-> IF generic
               THEN <<[kind |-> "Interface", name |-> "gp", names |-> <<"k">>]>>
               ELSE <<>>,
      contains |-> IF generic THEN <<Subroutine("k")>> ELSE <<>> ]

ProgramP(use) ==
    [kind |-> "Program", name |-> "p", use |-> use, decl |-> <<>>,
     contains |-> <<>>]

ModulesA ==
    { ModuleA(access, names, enum) :
        access \in {"Public", "Private"},
        names \in {<<>>, <<"f">>, <<"f", "g">>}, enum \in BOOLEAN }

\* a program that imports from a, directly or through b
ImportAsts ==
    { <<a, ProgramP(<<u>>)>> : a \in ModulesA, u \in UseForms("a") }
    \cup { <<a, ModuleB(<<ub>>, generic), ProgramP(<<u>>)>> :
             a \in ModulesA, generic \in BOOLEAN,
             ub \in { Use("a", FALSE, <<>>),
                      Use("a", TRUE, <<UseSymbol("gp", "")>>),
                      Use("a", TRUE, <<UseSymbol("f", "z")>>) },
             u \in UseForms("b") }

\* a program with two use statements
TwoUseAsts ==
    { <<ModuleA("Public", n, FALSE), ModuleB(<<ub>>, FALSE),
        ProgramP(<<u1, u2>>)>> :
        n \in {<<"f">>, <<"f", "g">>},
        ub \in {Use("a", FALSE, <<>>), Use("a", TRUE, <<UseSymbol("gp", "")>>)},
        u1 \in {Use("a", FALSE, <<>>), Use("a", TRUE, <<UseSymbol("f", "")>>)},
        u2 \in {Use("a", FALSE, <<>>), Use("b", FALSE, <<>>),
                Use("b", TRUE, <<UseSymbol("gp", "")>>)} }

\* module b with the public variable x and the subroutine f
ModuleX ==
    [ kind |-> "Module", name |-> "b", use |-> <<>>,
      decl |-> <<[kind |-> "Declaration", name |-> "x", access |-> "Public"]>>,
      contains |-> <<Subroutine("f")>> ]

\* a program that imports one symbol from b and then one from a, whose
\* variable x is private or public and which has no q
FailedImportAsts ==
    { <<ModuleA(access, <<>>, FALSE), ModuleX, ProgramP(<<u1, u2>>)>> :
        access \in {"Private", "Public"},
        u1 \in { Use("b", TRUE, <<UseSymbol("x", "")>>),
                 Use("b", TRUE, <<UseSymbol("f", "")>>),
                 Use("b", TRUE, <<UseSymbol("f", "x")>>),
                 Use("b", TRUE, <<UseSymbol("x", "q")>>) },
        u2 \in { Use("a", TRUE, <<UseSymbol("x", "")>>),
                 Use("a", TRUE, <<UseSymbol("X", "")>>),
                 Use("a", TRUE, <<UseSymbol("q", "")>>),
                 Use("a", TRUE, <<UseSymbol("x", "q")>>),
                 Use("a", TRUE, <<UseSymbol("g", "")>>) } }

\* `procedure, attr :: b => f` and `generic :: gb => b`
DerivedTypeProc(attr) ==
    [kind |-> "DerivedTypeProc", name |-> "b", proc |-> "f", pass |-> <<>>,
     attr |-> attr]

GenericName(name, names) ==
    [kind |-> "GenericName", name |-> name, names |-> names]

\* what a derived type of the model contains
TypeBound ==
    { <<>>, <<DerivedTypeProc({})>>, <<DerivedTypeProc({"nopass"})>>,
      <<DerivedTypeProc({"nopass", "deferred"})>>,
      <<DerivedTypeProc({"nopass"}), GenericName("gb", <<"b">>)>> }

\* a module with the subroutine f and, at will, one derived type
TypeBoundModule(name, dt, contains) ==
    [ kind |-> "Module", name |-> name, use |-> <<>>,
      decl |-> IF dt = "" THEN <<>>
               ELSE <<[kind |-> "DerivedType", name |-> dt,
                       access |-> "Public", items |-> <<>>,
                       contains |-> contains]>>,
      contains |-> <<Subroutine("f")>> ]

\* module a with the type t, then module b with a type t, a type u or none
TypeBoundAsts ==
    { <<TypeBoundModule("a", "t", c1), TypeBoundModule("b", dt, c2)>> :
        c1 \in TypeBound, c2 \in TypeBound, dt \in {"t", "u", ""} }

\* the global subroutine h next to the module a, and the imports of h
GlobalAsts ==
    { <<Subroutine("h"), ModuleA("Public", <<>>, FALSE), ProgramP(<<u>>)>> :
        u \in { Use("a", TRUE, <<UseSymbol("h", "")>>),
                Use("a", TRUE, <<UseSymbol("f", "")>>),
                Use("c", FALSE, <<>>), Use("h", FALSE, <<>>) } }

\* an interface block of the given header over one `module procedure`
\* statement
Interface(header, name, names) ==
    [kind |-> "Interface", header |-> header, name |-> name, names |-> names]

\* the interface blocks of the model: a generic name, the generic name of
\* the procedure it lists, the operator +, the defined operator .dot. and
\* the assignment, over the subroutines f and g
InterfaceBlocks ==
    { Interface("Name", "gp", <<"f">>), Interface("Name", "f", <<"f">>),
      Interface("Operator", "+", <<"f">>),
      Interface("DefinedOperator", "dot", <<"g">>),
      Interface("Assignment", "=", <<"f">>),
      Interface("Assignment", "=", <<"g">>) }

\* one module or program with up to two interface blocks and the
\* subroutines f and g
InterfaceAsts ==
    { <<[kind |-> kind, name |-> "m", use |-> <<>>, decl |-> decl,
         contains |-> <<Subroutine("f"), Subroutine("g")>>]>> :
        kind \in {"Module", "Program"}, decl \in SeqsUpTo(InterfaceBlocks, 2) }

\* `integer :: name` and `procedure(m_name) :: name`
Declaration(name) == [kind |-> "Declaration", name |-> name, access |-> "Public"]

ProcedureDeclaration(m_name, name) ==
    [kind |-> "Declaration", name |-> name, access |-> "Public",
     vartype |-> "TypeProcedure", m_name |-> m_name]

Declarations ==
    { Declaration("x"), Declaration("y"), ProcedureDeclaration("f", "q"),
      ProcedureDeclaration("g", "w") }

\* a program with two declarations and the subroutines f and g
DeclarationAsts ==
    { <<[kind |-> "Program", name |-> "p", use |-> <<>>, decl |-> <<d1, d2>>,
         contains |-> <<Subroutine("f"), Subroutine("g")>>]>> :
        d1 \in Declarations, d2 \in Declarations }

\* `type :: name` with the given components and type-bound procedures
DerivedType(name, items_, contains) ==
    [kind |-> "DerivedType", name |-> name, access |-> "Public",
     items |-> items_, contains |-> contains]

\* a module or program m whose two declarations are variables or derived
\* types named t, T or u, the types with a component x or none, followed by
\* a module or program named m or M
RedefinedDecls ==
    { Declaration("t"), Declaration("u"), DerivedType("t", <<>>, <<>>),
      DerivedType("T", <<Declaration("x")>>, <<>>),
      DerivedType("u", <<Declaration("u")>>, <<>>) }

RedefinitionAsts ==
    { <<[kind |-> k1, name |-> "a", use |-> <<>>, decl |-> <<d1, d2>>,
         contains |-> <<>>],
        [kind |-> k2, name |-> n2, use |-> <<>>, decl |-> <<>>,
         contains |-> <<>>]>> :
        k1 \in {"Module", "Program"}, k2 \in {"Module", "Program"},
        n2 \in {"A", "b"}, d1 \in RedefinedDecls, d2 \in RedefinedDecls }

\* module a with the subroutine f of the given access (`private :: f`,
\* `public :: f` or neither) and the subroutine g, and at will the public
\* generic gp over the given names
ModuleAccess(access, names) ==
    [ kind |-> "Module", name |-> "a", use |-> <<>>,
      decl |-> IF names = <<>> THEN <<>>
               ELSE <<[kind |-> "Interface", name |-> "gp", names |-> names]>>,
      contains |-> <<SubroutineWith([name |-> "f", access |-> access]),
                     Subroutine("g")>> ]

\* a program that imports from a module whose f has a declared access
AccessAsts ==
    { <<ModuleAccess(access, names), ProgramP(<<u>>)>> :
        access \in {"Private", "Public"},
        names \in {<<>>, <<"f">>, <<"g">>},
        u \in { Use("a", FALSE, <<>>), Use("a", FALSE, <<UseSymbol("f", "z")>>),
                Use("a", TRUE, <<UseSymbol("f", "")>>),
                Use("a", TRUE, <<UseSymbol("g", "")>>),
                Use("a", TRUE, <<UseSymbol("gp", "")>>) } }

\* module b with its own subroutines f and k and its own generic gp of k
ModuleOwn ==
    [ kind |-> "Module", name |-> "b", use |-> <<>>,
      decl |-> <<[kind |-> "Interface", name |-> "gp", names |-> <<"k">>]>>,
      contains |-> <<Subroutine("f"), Subroutine("k")>> ]

\* `use m`, `use m, only: f` and `use m, only: gp`
ShadowForms(m) ==
    { Use(m, FALSE, <<>>), Use(m, TRUE, <<UseSymbol("f", "")>>),
      Use(m, TRUE, <<UseSymbol("gp", "")>>) }

\* a program that imports from the modules a and b, which both have an f
\* and a generic gp, in either order
ShadowAsts ==
    { <<ModuleA("Public", <<"f">>, FALSE), ModuleOwn, ProgramP(us)>> :
        us \in UNION { {<<ua, ub>>, <<ub, ua>>} :
                         ua \in ShadowForms("a"), ub \in ShadowForms("b") } }

\* the template with the given name, namelist and declared entities
Template(name, namelist, declared) ==
    [ kind |-> "Template", name |-> name, namelist |-> namelist,
      decl |-> [i \in 1..Len(declared) |->
                   [kind |-> "Declaration", name |-> declared[i],
                    access |-> "Public"]] ]

\* a module a that declares a template, and a program that imports from a
TemplateAsts ==
    { <<[ModuleAccess("", <<>>) EXCEPT
             !.decl = <<Template(name, namelist, declared)>>],
        ProgramP(<<u>>)>> :
        name \in {"t", "T"}, namelist \in {<<>>, <<"x">>, <<"X">>, <<"y">>},
        declared \in {<<>>, <<"x">>},
        u \in {Use("a", FALSE, <<>>), Use("a", TRUE, <<UseSymbol("T", "")>>)} }

\* units with an item whose visit ends in an Error: a subroutine defined
\* twice, a templated subroutine s{T} or a subroutine h with an alternate
\* return (`*`) or an undeclared dummy argument, a module defined twice, a
\* module that contains f twice; the program p comes last
ContinueAsts ==
    { <<SubroutineWith([name |-> n, temp_args |-> ta, args |-> as]),
        ProgramP(<<>>)>> :
        n \in {"s"}, ta \in {<<>>, <<"T">>}, as \in {<<>>, <<"">>, <<"X">>} }
    \cup { <<Subroutine("h"), Subroutine("h"), ProgramP(<<>>)>>,
           <<ModuleAccess("", <<>>), ModuleAccess("", <<>>),
             ProgramP(<<Use("a", FALSE, <<>>)>>)>>,
           <<[ModuleAccess("", <<>>) EXCEPT
                  !.contains = <<Subroutine("f"), Subroutine("f")>>],
             ProgramP(<<Use("a", FALSE, <<>>)>>)>> }

Asts ==
    ImportAsts \cup TwoUseAsts \cup GlobalAsts \cup AccessAsts \cup ShadowAsts
        \cup TemplateAsts \cup InterfaceAsts \cup DeclarationAsts
        \cup FailedImportAsts \cup TypeBoundAsts

\* The resolver at the end of the visit of the module m, before
\* add_class_procedures: m holds the types p, s (which extends p) and c
\* (which extends s) and the subroutine f, whose scope declares x and y.
\* formals are the dummy arguments of f, tx and ty the declared types of x
\* and y, binding the type-bound procedure b of s.
ClassOf(struct) ==
    [type |-> Type([base |-> "StructType", is_cstruct |-> FALSE]),
     type_declaration |-> struct]

TypeOf(struct) ==
    [type |-> Type([base |-> "StructType", is_cstruct |-> TRUE]),
     type_declaration |-> struct]

IntegerEntity == [type |-> DefaultType, type_declaration |-> 0]

ClassArena(abstract, formals, tx, ty) ==
    [ tables |->
        << Table([counter |-> U64(0, 1), owner |-> TU, scope |-> ("m" :> 1)]),
           Table([counter |-> U64(0, 2), parent |-> 1, owner |-> 1,
                  scope |-> ("p" :> 2 @@ "s" :> 3 @@ "c" :> 4 @@ "f" :> 5)]),
           Table([counter |-> U64(0, 3), parent |-> 2, owner |-> 2]),
           Table([counter |-> U64(0, 4), parent |-> 2, owner |-> 3]),
           Table([counter |-> U64(0, 5), parent |-> 2, owner |-> 4]),
           Table([counter |-> U64(0, 6), parent |-> 2, owner |-> 5,
                  scope |-> ("x" :> 6 @@ "y" :> 7)]) >>,
      syms |->
        << Sym([kind |-> "Module", name |-> "m", symtab |-> 2]),
           Sym([kind |-> "Struct", name |-> "p", symtab |-> 3, parent |-> 0,
                is_abstract |-> FALSE]),
           Sym([kind |-> "Struct", name |-> "s", symtab |-> 4, parent |-> 2,
                is_abstract |-> abstract]),
           Sym([kind |-> "Struct", name |-> "c", symtab |-> 5, parent |-> 3,
                is_abstract |-> FALSE]),
           Sym([kind |-> "Function", name |-> "f", symtab |-> 6,
                type |-> Type([base |-> "FunctionType"]), args |-> formals]),
           Sym([kind |-> "Variable", name |-> "x", parent_symtab |-> 6,
                intent |-> "In"] @@ tx),
           Sym([kind |-> "Variable", name |-> "y", parent_symtab |-> 6,
                intent |-> "In"] @@ ty) >> ]

\* the dummy arguments of f with the types of x and y
ClassFormals ==
    { <<<<>>, IntegerEntity, IntegerEntity>> }
    \cup { <<fs, tx, ty>> :
             fs \in {<<6>>, <<6, 7>>},
             tx \in {ClassOf(2), ClassOf(3), ClassOf(4), TypeOf(3), IntegerEntity},
             ty \in {ClassOf(3), IntegerEntity} }

\* pass(...): absent, without a name, or with one
PassAttributes ==
    { <<>> } \cup { [pass |-> [name |-> n]] : n \in {"", "x", "y", "X", "z"} }

\* a visitor whose class_procedures holds the binding b of the type s
ClassVisitor(procedure, pass, attributes) ==
    [SymbolTableVisitor(<<>>) EXCEPT
        !.current_scope = 2,
        !.class_procedures =
            ("s" :> ("b" :> ([procedure |-> [name |-> procedure]] @@ pass))),
        !.class_deferred_procedures =
            IF attributes = {} THEN <<>> ELSE ("s" :> ("b" :> attributes))]

\* a module m with the Struct s of the given alignment expression and the
\* variable v, which has no compile-time value
AlignUnit(alignment) ==
    [ tables |->
        << Table([counter |-> U64(0, 1), owner |-> TU, scope |-> ("m" :> 1)]),
           Table([counter |-> U64(0, 2), parent |-> 1, owner |-> 1,
                  scope |-> ("s" :> 2 @@ "v" :> 3)]),
           Table([counter |-> U64(0, 3), parent |-> 2, owner |-> 2]) >>,
      syms |->
        << Sym([kind |-> "Module", name |-> "m", symtab |-> 2]),
           Sym([kind |-> "Struct", name |-> "s", symtab |-> 3,
                alignment |-> alignment]),
           Sym([kind |-> "Variable", name |-> "v", parent_symtab |-> 2]) >>,
      items |-> <<>> ]

Int64(n) == Expr([k |-> "IntegerConstant", n |-> n])

\* alignments: 0, the powers of two 2^i, 3, 6, 2^62 + 1, 2^63 - 1, and the
\* negative values -1, -2, -2^62, -2^63 + 1 and -2^63
AlignmentValues ==
    { {} } \cup { {i} : i \in {0, 1, 2, 3, 31, 32, 62} }
    \cup { {0, 1}, {1, 2}, {0, 62}, Bits64 \ {63} }
    \cup { Bits64, Bits64 \ {0}, {62, 63}, {0, 63}, {63} }

AlignUnits ==
    { AlignUnit(e) :
        e \in { Int64(n) : n \in AlignmentValues }
               \cup { NullExpr, Var(3), Expr([k |-> "RealConstant"]) } }

\* signed overflow: the value wraps around, or the process is stopped
OverflowOutcomes == {"wraps", "crash"}

OobOutcomes == {"crash", "required", "other"}

NoResolver == [ active |-> FALSE ]

NotVerified == [ out |-> "none" ]

InitUnit(u, ce, o) ==
    /\ tables = u.tables
    /\ syms = u.syms
    /\ items = u.items
    /\ pc = "verify"
    /\ check_external = ce
    /\ oob = o
    /\ overflow = "wraps"
    /\ vres = NotVerified
    /\ rs = NoResolver

InitAlign(u, ce, w) ==
    /\ tables = u.tables
    /\ syms = u.syms
    /\ items = u.items
    /\ pc = "verify"
    /\ check_external = ce
    /\ oob = "crash"
    /\ overflow = w
    /\ vres = NotVerified
    /\ rs = NoResolver

InitClass(abstract, f, procedure, pass, attributes) ==
    /\ tables = ClassArena(abstract, f[1], f[2], f[3]).tables
    /\ syms = ClassArena(abstract, f[1], f[2], f[3]).syms
    /\ items = <<>>
    /\ pc = "classes"
    /\ check_external = TRUE
    /\ oob = "crash"
    /\ overflow = "wraps"
    /\ vres = NotVerified
    /\ rs = ClassVisitor(procedure, pass, attributes)

\* a procedure with the statement `entry name(args)` between two others
EntryProcedure(kind, name, args, entry, entry_args, scope) ==
    [ kind |-> kind, name |-> name, args |-> args, scope |-> scope,
      body |-> << [kind |-> "Other"],
                  [kind |-> "Entry", name |-> entry, args |-> entry_args],
                  [kind |-> "Other"] >> ]

\* the declarations of a procedure's scope: x, y and z, and the return
\* variable of a function
EntryScope(kind, name, first) ==
    ("x" :> first @@ "y" :> first + 1 @@ "z" :> first + 2)
        @@ (IF kind = "Function" THEN name :> first + 3 ELSE <<>>)

EntryVariables(kind, name, scope) ==
    << Sym([kind |-> "Variable", name |-> "x", parent_symtab |-> scope,
            intent |-> "In"]),
       Sym([kind |-> "Variable", name |-> "y", parent_symtab |-> scope,
            intent |-> "In"]),
       Sym([kind |-> "Variable", name |-> "z", parent_symtab |-> scope,
            intent |-> "In"]),
       Sym([kind |-> "Variable", name |-> name, parent_symtab |-> scope,
            intent |-> IF kind = "Function" THEN "ReturnVar" ELSE "Local"]) >>

\* the modules a and b, a with the procedure s and b with the procedure of
\* the given name, at the end of the visits of the two procedures
EntryArena(kind, name) ==
    [ tables |->
        << Table([counter |-> U64(0, 1), owner |-> TU,
                  scope |-> ("a" :> 1 @@ "b" :> 2)]),
           Table([counter |-> U64(0, 2), parent |-> 1, owner |-> 1,
                  scope |-> ("s" :> 3)]),
           Table([counter |-> U64(0, 3), parent |-> 1, owner |-> 2,
                  scope |-> (name :> 4)]),
           Table([counter |-> U64(0, 4), parent |-> 2, owner |-> 3,
                  scope |-> EntryScope(kind, "s", 5)]),
           Table([counter |-> U64(0, 5), parent |-> 3, owner |-> 4,
                  scope |-> EntryScope(kind, name, 9)]) >>,
      syms |->
        << Sym([kind |-> "Module", name |-> "a", symtab |-> 2]),
           Sym([kind |-> "Module", name |-> "b", symtab |-> 3]),
           Sym([kind |-> "Function", name |-> "s", symtab |-> 4,
                type |-> Type([base |-> "FunctionType"])]),
           Sym([kind |-> "Function", name |-> name, symtab |-> 5,
                type |-> Type([base |-> "FunctionType"])]) >>
        \o EntryVariables(kind, "s", 4) \o EntryVariables(kind, name, 5) ]

EntryArgs == { <<"x">>, <<"x", "y">>, <<"y", "z">>, <<"X">> }

\* the two procedures, each with one entry
EntryProcedures ==
    { << EntryProcedure(kind, "s", <<"x">>, "e", a1, 4),
         EntryProcedure(kind, name, a2, e2, <<"y">>, 5) >> :
        kind \in {"Subroutine", "Function"}, name \in {"s", "t"},
        e2 \in {"e", "k"}, a1 \in EntryArgs, a2 \in EntryArgs }

\* the resolver at the end of the visit of the first of two procedures
InitEntry(procedures) ==
    /\ tables = EntryArena(procedures[1].kind, procedures[2].name).tables
    /\ syms = EntryArena(procedures[1].kind, procedures[2].name).syms
    /\ items = <<>>
    /\ pc = "entries"
    /\ check_external = TRUE
    /\ oob = "crash"
    /\ overflow = "wraps"
    /\ vres = NotVerified
    /\ rs = SymbolTableVisitor(procedures)

\* the resolver before its first item, implicit typing being on or off
InitImplicit(ast, implicit_typing) ==
    /\ tables = << Table([counter |-> U64(0, 1), owner |-> TU]) >>
    /\ syms = <<>>
    /\ items = <<>>
    /\ pc = "resolve"
    /\ check_external = TRUE
    /\ oob = "crash"
    /\ overflow = "wraps"
    /\ vres = NotVerified
    /\ rs = [SymbolTableVisitor(ast) EXCEPT !.implicit_typing = implicit_typing]

\* the resolver before its first item: the table handed to
\* symbol_table_visitor is the empty global one
InitAst(ast, cc) ==
    /\ tables = << Table([counter |-> U64(0, 1), owner |-> TU]) >>
    /\ syms = <<>>
    /\ items = <<>>
    /\ pc = "resolve"
    /\ check_external = TRUE
    /\ oob = "crash"
    /\ overflow = "wraps"
    /\ vres = NotVerified
    /\ rs = [SymbolTableVisitor(ast) EXCEPT !.continue_compilation = cc]

Init ==
    \/ \E u \in DepUnits : InitUnit(u, TRUE, "crash")
    \/ \E u \in DuplicateCounterUnits \cup WideCounterUnits \cup ParentUnits
                  \cup AssignUnits \cup TypeUnits \cup ModUnits
                  \cup NestedUnits,
          ce \in BOOLEAN : InitUnit(u, ce, "crash")
    \/ \E u \in ArgUnits, ce \in BOOLEAN, o \in OobOutcomes : InitUnit(u, ce, o)
    \/ \E u \in AlignUnits, ce \in BOOLEAN, w \in OverflowOutcomes :
           InitAlign(u, ce, w)
    \/ \E ast \in Asts : InitAst(ast, FALSE)
    \/ \E ast \in ContinueAsts, cc \in BOOLEAN : InitAst(ast, cc)
    \/ \E abstract \in BOOLEAN, f \in ClassFormals, procedure \in {"f", "q"},
          pass \in PassAttributes, attributes \in SUBSET {"deferred", "nopass"} :
           InitClass(abstract, f, procedure, pass, attributes)
    \/ \E procedures \in EntryProcedures : InitEntry(procedures)
    \/ \E ast \in RedefinitionAsts, implicit_typing \in BOOLEAN :
           InitImplicit(ast, implicit_typing)

\* one turn of the loop of SymbolTableVisitor::visit_TranslationUnit
visit_ast ==
    /\ pc = "resolve"
    /\ rs.out = "ok"
    /\ rs.ast # <<>>
    /\ \E r \in {visit_item([rs EXCEPT !.ast = Tail(@)] @@ Arena,
                            Head(rs.ast))} :
           /\ tables' = r.tables
           /\ syms' = r.syms
           /\ rs' = [f \in DOMAIN rs |-> r[f]]
    /\ UNCHANGED <<items, pc, check_external, oob, overflow, vres>>

\* symbol_table_visitor returns: the unit, or Error after a SemanticAbort;
\* any other exception leaves it
symbol_table_visitor ==
    /\ pc = "resolve"
    /\ rs.out # "ok" \/ rs.ast = <<>>
    /\ rs' = [rs EXCEPT !.result = CASE rs.out = "ok" -> "unit"
                                     [] rs.out = "SemanticAbort" -> "Error"
                                     [] OTHER -> rs.out]
    /\ pc' = IF rs.out = "ok" THEN "verify" ELSE "failed"
    /\ UNCHANGED <<tables, syms, items, check_external, oob, overflow, vres>>

\* add_class_procedures, as the visit of a module calls it
module_class_procedures ==
    /\ pc = "classes"
    /\ \E r \in {add_class_procedures(rs @@ Arena)} :
           /\ tables' = r.tables
           /\ syms' = r.syms
           /\ rs' = [f \in DOMAIN rs |-> r[f]]
    /\ pc' = "classes_added"
    /\ UNCHANGED <<items, check_external, oob, overflow, vres>>

\* the entries of the next procedure, as the end of its visit makes them
procedure_entries ==
    /\ pc = "entries"
    /\ rs.out = "ok"
    /\ rs.ast # <<>>
    /\ \E r \in {Procedure_scanned(
                     [rs EXCEPT !.ast = Tail(@),
                                !.current_scope = Head(rs.ast).scope] @@ Arena,
                     Head(rs.ast), to_lower(Head(rs.ast).name))} :
           /\ tables' = r.tables
           /\ syms' = r.syms
           /\ rs' = [f \in DOMAIN rs |-> r[f]]
    /\ UNCHANGED <<items, pc, check_external, oob, overflow, vres>>

\* the module the use statement of the program at the head of ast names
Use_module_of(ar, scope, x) ==
    SymbolTable_resolve_symbol(ar, scope, Use_msym(x.use[1]))

\* the use statement of a program that has one, up to the loop over the
\* imports that were put off: the module is there and symbols are listed
visit_Use_symbols ==
    /\ pc = "resolve"
    /\ rs.out = "ok"
    /\ rs.ast # <<>>
    /\ Head(rs.ast).kind = "Program"
    /\ Len(Head(rs.ast).use) = 1
    /\ Len(Head(rs.ast).use[1].symbols) > 0
    /\ SymAt(Use_module_of(Arena, rs.current_scope, Head(rs.ast))).kind = "Module"
    /\ \E r \in {use_symbols(
                     Use_entered(enter_unit(rs @@ Arena),
                                 Use_msym(Head(rs.ast).use[1])),
                     Use_module_of(Arena, rs.current_scope, Head(rs.ast)),
                     Use_msym(Head(rs.ast).use[1]),
                     Head(rs.ast).use[1].symbols, 1)} :
           /\ tables' = r.tables
           /\ syms' = r.syms
           /\ rs' = [f \in DOMAIN rs |-> r[f]]
    /\ pc' = "imports"
    /\ UNCHANGED <<items, check_external, oob, overflow, vres>>

\* one turn of the loop `while( !to_be_imported_later.empty() )`
visit_Use_import_later ==
    /\ pc = "imports"
    /\ rs.out = "ok"
    /\ rs.to_be_imported_later # <<>>
    /\ \E r \in {import_later_one(
                     [rs EXCEPT !.to_be_imported_later = Tail(@)] @@ Arena,
                     Use_module_of(Arena, rs.current_scope, Head(rs.ast)),
                     Use_msym(Head(rs.ast).use[1]),
                     Head(rs.to_be_imported_later)[1],
                     Head(rs.to_be_imported_later)[2])} :
           /\ tables' = r.tables
           /\ syms' = r.syms
           /\ rs' = [f \in DOMAIN rs |-> r[f]]
    /\ UNCHANGED <<items, pc, check_external, oob, overflow, vres>>

\* the loop is left: the queue is empty, or an exception is in flight
visit_Use_imported ==
    /\ pc = "imports"
    /\ rs.out # "ok" \/ rs.to_be_imported_later = <<>>
    /\ pc' = IF rs.out = "ok" THEN "imported" ELSE "failed"
    /\ UNCHANGED <<tables, syms, items, check_external, oob, overflow, vres, rs>>

asr_verify ==
    /\ pc = "verify"
    /\ vres' = asr_verify_walk(check_external)
    /\ pc' = "done"
    /\ UNCHANGED <<tables, syms, items, check_external, oob, overflow, rs>>

Next ==
    \/ visit_ast
    \/ symbol_table_visitor
    \/ module_class_procedures
    \/ procedure_entries
    \/ visit_Use_symbols
    \/ visit_Use_import_later
    \/ visit_Use_imported
    \/ asr_verify

Spec == Init /\ [][Next]_vars

\* the resolver alone, on the programs that import from a module with one
\* use statement
InitUse == \E ast \in ImportAsts \cup AccessAsts \cup GlobalAsts : InitAst(ast, FALSE)

NextUse ==
    \/ visit_ast
    \/ visit_Use_symbols
    \/ visit_Use_import_later
    \/ visit_Use_imported

\* the loop of a use statement runs on: a turn that can be taken is taken
UseSpec ==
    /\ InitUse
    /\ [][NextUse]_vars
    /\ WF_vars(visit_Use_import_later)
    /\ WF_vars(visit_Use_imported)

Accepted == pc = "done" /\ vres.out = "ok"

(***************************************************************************)
(* What the resolver left behind, read off the tree.                       *)
(***************************************************************************)
\* the symbols reachable from table t through the scopes
RECURSIVE SymsUnder(_)
SymsUnder(t) ==
    UNION { {Tab(t).scope[n]} \cup
            (IF symbol_symtab(Tab(t).scope[n]) # 0
                 THEN SymsUnder(symbol_symtab(Tab(t).scope[n]))
                 ELSE {}) : n \in DOMAIN Tab(t).scope }

ReachableSyms == SymsUnder(GlobalScope)

\* the resolver is through with the unit and returned it
Resolved == rs.active /\ pc # "resolve" /\ rs.result = "unit"

\* the symbol an ExternalSymbol stands for, the symbol itself otherwise
PastExternal(s) == ASRUtils_symbol_get_past_external(Arena, s)

\* the table of the unit bound to name in the global scope, 0 for none
UnitScope(name) == symbol_symtab(get_symbol(GlobalScope, name))

\* the symbols of table t that a public aggregate of t is made of
AggregateProcs(t) ==
    UNION { { PastExternal(SymAt(Tab(t).scope[n]).procs[i]) :
                i \in 1..Len(SymAt(Tab(t).scope[n]).procs) } :
            n \in { k \in DOMAIN Tab(t).scope :
                      /\ SymAt(Tab(t).scope[k]).kind
                             \in {"GenericProcedure", "CustomOperator"}
                      /\ SymAt(Tab(t).scope[k]).access # "Private" } }

\* the procedures behind the bindings of the public Structs of table t
BindingProcs(t) ==
    UNION { { PastExternal(SymAt(Tab(SymAt(Tab(t).scope[n]).symtab).scope[b]).proc) :
                b \in { k \in DOMAIN Tab(SymAt(Tab(t).scope[n]).symtab).scope :
                          SymAt(Tab(SymAt(Tab(t).scope[n]).symtab).scope[k]).kind
                              = "StructMethodDeclaration" } } :
            n \in { k \in DOMAIN Tab(t).scope :
                      /\ SymAt(Tab(t).scope[k]).kind = "Struct"
                      /\ SymAt(Tab(t).scope[k]).access # "Private" } }

\* the private symbols of module table t that nothing makes indirectly public
HiddenSymbols(t) ==
    { s \in { Tab(t).scope[n] : n \in DOMAIN Tab(t).scope } :
        /\ SymAt(s).kind # "ExternalSymbol"
        /\ SymAt(s).access = "Private"
        /\ s \notin AggregateProcs(t) \cup BindingProcs(t) }

\* the symbols the names of table t stand for
BoundTargets(t) == { PastExternal(Tab(t).scope[n]) : n \in DOMAIN Tab(t).scope }

\* C11: once the resolver has returned the unit, the scope of the program p,
\* which imports from module a, binds no name to a private symbol of a
\* unless a public aggregate of a or a binding of a public Struct of a
\* reaches that symbol
C11_PrivateNotImported ==
    (Resolved /\ UnitScope("a") # 0 /\ UnitScope("p") # 0)
        => BoundTargets(UnitScope("p")) \cap HiddenSymbols(UnitScope("a")) = {}

\* the visit of the next item of the AST ends in a SemanticAbort
VisitAborts ==
    /\ rs.active /\ pc = "resolve" /\ rs.out = "ok" /\ rs.ast # <<>>
    /\ SymbolTableVisitor_visit_ast([rs EXCEPT !.ast = Tail(@)] @@ Arena,
                                    Head(rs.ast)).out = "SemanticAbort"

\* the symbols a step adds to the arena
MadeByStep == { s \in 1..Len(syms') : s > Len(syms) }

\* C15: when compilation continues after errors and the visit of an item of
\* the unit ends in a SemanticAbort, none of the symbols made during that
\* visit is in a table reachable from the global scope afterwards
C15_FailedEntityDropped ==
    [][(VisitAborts /\ rs.continue_compilation)
         => ReachableSyms' \cap MadeByStep = {}]_vars

\* C16: when the visit of an item of the unit, each of which opens a scope,
\* ends in a SemanticAbort, current_scope is what it was when the visit began
C16_ScopeRestoredOnAbort ==
    [][VisitAborts => rs'.current_scope = rs.current_scope]_vars

\* the item the resolver visits in this step is a module or a program, and
\* its visit ends without an exception and without a diagnostic
UnitVisited ==
    /\ pc = "resolve" /\ rs.out = "ok" /\ rs.ast # <<>>
    /\ Head(rs.ast).kind \in {"Module", "Program"}
    /\ rs'.out = "ok" /\ rs'.diag = rs.diag

\* the interface blocks of the unit visited
InterfacesVisited ==
    { Head(rs.ast).decl[i] : i \in { j \in 1..Len(Head(rs.ast).decl) :
                                       Head(rs.ast).decl[j].kind = "Interface" } }

\* the name the symbol of an interface block is defined under
EmittedNames(x) ==
    CASE Interface_header(x) = "Name" ->
             {to_lower(x.name), "~" \o to_lower(x.name)}
      [] Interface_header(x) = "Operator" -> {intrinsic2str(x.name)}
      [] Interface_header(x) = "DefinedOperator" -> {"~~" \o to_lower(x.name)}
      [] Interface_header(x) = "Assignment" -> {"~assign"}

EmittedKind(x) ==
    IF Interface_header(x) = "Name" THEN "GenericProcedure"
    ELSE "CustomOperator"

\* the table of the unit the global scope binds under the name
TableOfUnit(name) ==
    IF name \in DOMAIN Tab(GlobalScope).scope
        THEN symbol_symtab(Tab(GlobalScope).scope[name]) ELSE 0

\* the table of the unit holds the symbol of the interface block x, with
\* the procedures x lists among its constituents
Emitted(t, x) ==
    /\ t # 0
    /\ \E n \in EmittedNames(x) \cap DOMAIN Tab(t).scope :
           /\ SymAt(Tab(t).scope[n]).kind = EmittedKind(x)
           /\ \A i \in 1..Len(x.names) :
                  \E k \in 1..Len(SymAt(Tab(t).scope[n]).procs) :
                      SymAt(SymAt(Tab(t).scope[n]).procs[k]).name
                          = to_lower(x.names[i])

AccumulatorsEmpty ==
    /\ rs.generic_procedures = <<>> /\ rs.overloaded_op_procs = <<>>
    /\ rs.defined_op_procs = <<>> /\ rs.assgn_proc_names = <<>>

\* C22: when the visit of a module or a program ends, the unit's table
\* holds a GenericProcedure or CustomOperator for every interface block of
\* the unit, and the four accumulators of the resolver are empty
C22_AccumulatorsEmittedAndEmptied ==
    [][UnitVisited
         => /\ AccumulatorsEmpty'
            /\ \A n \in {to_lower(Head(rs.ast).name)} :
                   \A x \in InterfacesVisited :
                       Emitted(TableOfUnit(n), x)']_vars

\* the item the resolver visits in this step is a module or a program
UnitEntered ==
    /\ pc = "resolve" /\ rs.out = "ok" /\ rs.ast # <<>>
    /\ Head(rs.ast).kind \in {"Module", "Program"}

\* the generic names of the unit visited that list a procedure of their
\* own name which the unit contains
GenericsOfTheirOwnName ==
    { to_lower(x.name) : x \in
        { y \in InterfacesVisited :
            /\ Interface_header(y) = "Name"
            /\ \E i \in 1..Len(y.names) : to_lower(y.names[i]) = to_lower(y.name)
            /\ \E i \in 1..Len(Head(rs.ast).contains) :
                   to_lower(Head(rs.ast).contains[i].name) = to_lower(y.name) } }

\* the table t binds the procedure of the generic g under its name behind
\* the suffix, and the GenericProcedure of g has it as a constituent
RenamedAndReferenced(t, g) ==
    /\ t # 0
    /\ (g \o "~genericprocedure") \in DOMAIN Tab(t).scope
    /\ SymAt(Tab(t).scope[g \o "~genericprocedure"]).kind \in
           {"Function", "Subroutine"}
    /\ \E n \in {g, "~" \o g} \cap DOMAIN Tab(t).scope :
           /\ SymAt(Tab(t).scope[n]).kind = "GenericProcedure"
           /\ \E k \in 1..Len(SymAt(Tab(t).scope[n]).procs) :
                  SymAt(Tab(t).scope[n]).procs[k]
                      = Tab(t).scope[g \o "~genericprocedure"]

\* C23: after the visit of a unit with a generic interface g that lists the
\* unit's procedure g, the unit's table binds that procedure under
\* g~genericprocedure and the GenericProcedure g refers to it
C23_CollidingProcedureRenamed ==
    [][UnitEntered
         => \A n \in {to_lower(Head(rs.ast).name)} :
                \A g \in GenericsOfTheirOwnName :
                    RenamedAndReferenced(TableOfUnit(n), g)']_vars

\* the entries of a procedure are rewritten in this step, without an
\* exception
EntriesRewritten ==
    /\ pc = "entries" /\ rs.out = "ok" /\ rs.ast # <<>>
    /\ contains_entry_function(Head(rs.ast).body)
    /\ rs'.out = "ok"

\* the procedure and its entries, each with its name and its formals
EntryPoints(x) ==
    { [name |-> to_lower(x.name), args |-> x.args] }
    \cup { [name |-> to_lower(x.body[i].name), args |-> x.body[i].args] :
             i \in { j \in 1..Len(x.body) : x.body[j].kind = "Entry" } }

\* the names of the master function's formals, the master being bound in
\* the table t
MasterFormals(t, sym_name) ==
    IF (sym_name \o "_main__lcompilers") \in DOMAIN Tab(t).scope
        THEN [i \in 1..Len(SymAt(Tab(t).scope[sym_name \o "_main__lcompilers"]).args)
                 |-> SymAt(SymAt(Tab(t).scope[sym_name \o "_main__lcompilers"])
                               .args[i]).name]
        ELSE <<>>

\* the formals of the master: entry__lcompilers, then each formal of the
\* entry points once
MasterOf(formals, points) ==
    /\ formals # <<>> /\ formals[1] = "entry__lcompilers"
    /\ NoDup(formals)
    /\ SeqToSet(Tail(formals))
           = UNION { SeqToSet(LowerAll(p.args)) : p \in points }

\* the indices recorded for the entry point p are the positions of its
\* formals among the master's, counted from zero
MappedInto(mapping, formals, p) ==
    /\ Len(vector_at(mapping, p.name)) = Len(p.args)
    /\ \A i \in 1..Len(p.args) :
           /\ mapping[p.name][i] + 1 \in 1..Len(formals)
           /\ formals[mapping[p.name][i] + 1] = to_lower(p.args[i])

\* C24: once the entries of a procedure are rewritten, the master's formals
\* are entry__lcompilers and each formal of the procedure and its entries
\* once, and the mapping of the procedure and of each entry lists, formal
\* by formal, the formal's position among the master's
C24_ArgumentMappingOfEntries ==
    [][EntriesRewritten
         => \A x \in {Head(rs.ast)} :
                \A t \in {Tab(x.scope).parent} :
                    /\ MasterOf(MasterFormals(t, to_lower(x.name)),
                                EntryPoints(x))'
                    /\ \A p \in EntryPoints(x) :
                           MappedInto(rs.entry_function_arguments_mapping,
                                      MasterFormals(t, to_lower(x.name)), p)']_vars

\* The symbols of the arena are numbered as they are made: of two symbols
\* the one made first has the smaller number.
\* the declarations of decl that the table t binds were processed in the
\* order of the source
InSourceOrder(t, decl) ==
    \A i, j \in 1..Len(decl) :
        (/\ i < j
         /\ decl[i].kind = "Declaration" /\ decl[j].kind = "Declaration"
         /\ {to_lower(decl[i].name), to_lower(decl[j].name)}
                \subseteq DOMAIN Tab(t).scope)
            => Tab(t).scope[to_lower(decl[i].name)]
                   < Tab(t).scope[to_lower(decl[j].name)]

\* C25: a program is no procedure, so none of its declarations has the
\* enclosing procedure for its interface: after the visit of a program all
\* its declarations were processed in the order of the source
C25_DeclarationsInSourceOrder ==
    [][(UnitVisited /\ Head(rs.ast).kind = "Program")
         => \A n \in {to_lower(Head(rs.ast).name)} :
                \A decl \in {Head(rs.ast).decl} :
                    InSourceOrder(TableOfUnit(n), decl)']_vars

\* the declaration d binds its name: a variable, or a derived type none of
\* whose components has the name of the type
BindsItsName(d) ==
    \/ d.kind = "Declaration"
    \/ /\ d.kind = "DerivedType"
       /\ \A i \in 1..Len(d.items) :
              to_lower(d.items[i].name) # to_lower(d.name)

\* the unit x defines a derived type whose name its first declaration bound
DerivedTypeRedefined(x) ==
    /\ Len(x.decl) = 2
    /\ BindsItsName(x.decl[1])
    /\ x.decl[2].kind = "DerivedType"
    /\ to_lower(x.decl[2].name) = to_lower(x.decl[1].name)

\* the table t binds n to the first of the symbols named n made after made
FirstBindingKept(t, n, made) ==
    /\ n \in DOMAIN Tab(t).scope
    /\ \A s \in (made + 1)..Len(syms) :
           SymAt(s).name = n => Tab(t).scope[n] <= s

\* C26: the visit of a module or program whose lowercase name the enclosing
\* table binds, or of a unit that defines a derived type whose lowercase
\* name the unit's table binds, records an Error and leaves the binding as
\* it was, implicit typing being on or off
C26_RedefinitionKeepsBinding ==
    [][UnitEntered
         => \A x \in {Head(rs.ast)} :
            \A n \in {to_lower(Head(rs.ast).name)} :
            \A t \in {Len(tables) + 1} :
            \A made \in {Len(syms)} :
            \A bound \in {SymbolTable_get_symbol(Arena, rs.current_scope, n)} :
            \A errors \in {rs.diag.Error} :
                /\ bound # 0
                     => /\ rs'.diag.Error > errors
                        /\ SymbolTable_get_symbol(Arena, 1, n)' = bound
                /\ DerivedTypeRedefined(x)
                     => \A tn \in {to_lower(x.decl[2].name)} :
                            /\ rs'.diag.Error > errors
                            /\ FirstBindingKept(t, tn, made)']_vars

\* `use m, only: s` of a module the global table binds
ImportsOneSymbol(u) ==
    /\ u.only_present /\ Len(u.symbols) = 1
    /\ SymAt(get_symbol(GlobalScope, to_lower(u.module))).kind = "Module"

\* what the statement u imports: the symbol its remote name resolves to in
\* the table of the module, 0 where there is none
ImportedFrom(u) ==
    SymbolTable_resolve_symbol(
        Arena, SymAt(get_symbol(GlobalScope, to_lower(u.module))).symtab,
        to_lower(u.symbols[1].remote_sym))

\* the table t binds nothing but local_sym, to an ExternalSymbol of what
\* ImportedFrom gave
BindsOnly(t, local_sym, imported) ==
    /\ DOMAIN Tab(t).scope = {local_sym}
    /\ SymAt(Tab(t).scope[local_sym]).kind = "ExternalSymbol"
    /\ SymAt(Tab(t).scope[local_sym]).external = imported

\* C28: a program imports one symbol, a public Variable or a procedure, and
\* then fails to import one symbol of another module with an Error: the
\* program's table binds what the first import bound, nothing else
C28_FailedImportKeepsBindings ==
    [][(/\ UnitEntered
        /\ Head(rs.ast).kind = "Program"
        /\ Len(Head(rs.ast).use) = 2
        /\ ImportsOneSymbol(Head(rs.ast).use[1])
        /\ ImportsOneSymbol(Head(rs.ast).use[2])
        /\ SymAt(ImportedFrom(Head(rs.ast).use[1])).kind
               \in {"Variable", "Function"}
        /\ SymAt(ImportedFrom(Head(rs.ast).use[1])).access = "Public"
        /\ rs'.out = "SemanticAbort"
        /\ rs'.diag.Error = rs.diag.Error + 1)
         => \A t \in {Len(tables) + 1} :
            \A local_sym \in {use_local_sym(Head(rs.ast).use[1].symbols[1])} :
            \A imported \in {ImportedFrom(Head(rs.ast).use[1])} :
                BindsOnly(t, local_sym, imported)']_vars

\* the derived types the unit visited declares
DerivedTypesVisited ==
    { Head(rs.ast).decl[i] : i \in { j \in 1..Len(Head(rs.ast).decl) :
                                       Head(rs.ast).decl[j].kind = "DerivedType" } }

\* the statements of the given kind the derived type d contains
ContainedIn(d, kind) ==
    { d.contains[i] : i \in { j \in 1..Len(d.contains) :
                                d.contains[j].kind = kind } }

\* the names the table t binds to symbols of the given kind
BoundOfKind(t, kind) ==
    { n \in DOMAIN Tab(t).scope : SymAt(Tab(t).scope[n]).kind = kind }

\* the table st of the Struct made for d has the bindings d declares, with
\* the deferred and nopass flags their statements give them, and for
\* generics those d declares
OwnTypeBound(st, d) ==
    /\ \A c \in ContainedIn(d, "DerivedTypeProc") :
           /\ to_lower(c.name) \in BoundOfKind(st, "StructMethodDeclaration")
           /\ SymAt(Tab(st).scope[to_lower(c.name)]).is_deferred
                  = ("deferred" \in c.attr)
           /\ SymAt(Tab(st).scope[to_lower(c.name)]).is_nopass
                  = ("nopass" \in c.attr)
    /\ BoundOfKind(st, "GenericProcedure")
           = { to_lower(g.name) : g \in ContainedIn(d, "GenericName") }

\* C29: after the visit of a module the type-bound procedures of each of
\* its derived types have the deferred and nopass flags of the module's own
\* statements, and the generic type-bound symbols are those the module's
\* own types declare, whatever the modules before it declared
C29_TypeBoundOfThisModule ==
    [][(UnitVisited /\ Head(rs.ast).kind = "Module")
         => \A n \in {to_lower(Head(rs.ast).name)} :
            \A d \in DerivedTypesVisited :
            \A dt \in {to_lower(d.name)} :
                (\A t \in {TableOfUnit(n)} :
                     OwnTypeBound(symbol_symtab(Tab(t).scope[dt]), d))']_vars

\* the local names of the imports that are put off: a procedure of a
\* generic under the name of the generic
QueuedLocals == { p \o "@" \o "gp" : p \in {"f", "g", "k"} }

\* the local name n is in the queue of the loop
Queued(n) ==
    /\ pc = "imports"
    /\ \E i \in 1..Len(rs.to_be_imported_later) :
           rs.to_be_imported_later[i][2] = n

\* the name resolves in the current scope
ResolvesInCurrentScope(n) ==
    SymbolTable_resolve_symbol(Arena, rs.current_scope, n) # 0

\* C30: the loop over the imports that were put off comes to its end, and
\* when it ends with the queue empty every local name that was in the queue
\* resolves in the current scope
C30_WorklistTerminatesResolved ==
    /\ (pc = "imports") ~> (pc # "imports")
    /\ [](pc = "imports" =>
             \A i \in 1..Len(rs.to_be_imported_later) :
                 rs.to_be_imported_later[i][2] \in QueuedLocals)
    /\ \A n \in QueuedLocals :
           [](Queued(n) => [](pc = "imported" => ResolvesInCurrentScope(n)))

\* the loop ended after it imported f under the name f@gp, which was put
\* off when the generic gp was imported
C30_Witness ==
    /\ pc = "imported"
    /\ rs.out = "ok"
    /\ "f@gp" \in DOMAIN Tab(rs.current_scope).scope
    /\ SymAt(Tab(rs.current_scope).scope["f@gp"]).kind = "ExternalSymbol"
    /\ "gp" \in DOMAIN Tab(rs.current_scope).scope

\* C19: every name a table binds is in lowercase
C19_KeysLowercase ==
    \A t \in 1..Len(tables) :
        \A n \in DOMAIN tables[t].scope : n = to_lower(n)

\* the int64_t is a power of two above zero: one bit, which is not the sign
PositivePowerOfTwo(n) == Cardinality(n) = 1 /\ 63 \notin n

\* C20: a unit asr_verify accepts holds no Struct whose alignment
\* expression is there without being an integer constant equal to a
\* positive power of two
C20_AlignmentPositivePowerOfTwo ==
    Accepted =>
        \A s \in ReachableSyms :
            (SymAt(s).kind = "Struct" /\ SymAt(s).alignment.k # "null")
                => /\ expr_value(SymAt(s).alignment).k = "IntegerConstant"
                   /\ PositivePowerOfTwo(
                          IntegerConstant_n(expr_value(SymAt(s).alignment)))

\* wrapper inner occurs somewhere below wrapper outer in the type
occurs_inside(ty, outer, inner) ==
    \E i, j \in 1..Len(ty.wrap) :
        i < j /\ ty.wrap[i] = outer /\ ty.wrap[j] = inner

\* C21: a unit asr_verify accepts holds no Variable whose type has an
\* Allocatable at any depth inside a Pointer, or a Pointer at any depth
\* inside an Allocatable
C21_AllocatablePointerNeverNest ==
    Accepted =>
        \A s \in ReachableSyms :
            SymAt(s).kind = "Variable"
                => /\ ~occurs_inside(SymAt(s).type, "Pointer", "Allocatable")
                   /\ ~occurs_inside(SymAt(s).type, "Allocatable", "Pointer")

\* add_class_procedures is through, with or without an Error
ClassesAdded == rs.active /\ pc = "classes_added"

\* the bindings in the table of the Struct s
BindingsOf(s) ==
    { Tab(SymAt(s).symtab).scope[n] : n \in DOMAIN Tab(SymAt(s).symtab).scope }

\* C17: a deferred binding that add_class_procedures has put into the table
\* of a Struct is in the table of an abstract Struct
C17_DeferredOnlyInAbstract ==
    ClassesAdded =>
        \A s \in 1..Len(syms) :
            SymAt(s).kind = "Struct" =>
                \A b \in BindingsOf(s) :
                    SymAt(b).is_deferred => SymAt(s).is_abstract

\* the Struct s and the Structs it extends, directly or not
RECURSIVE SelfAndAncestors(_)
SelfAndAncestors(s) ==
    IF s = 0 THEN {} ELSE {s} \cup SelfAndAncestors(SymAt(s).parent)

\* the pass-object formal of the procedure proc under the binding's
\* attributes: the formal of the name in pass(...), the first one otherwise;
\* 0 when there is none
PassObject(proc, info) ==
    IF "pass" \in DOMAIN info /\ info.pass.name # ""
        THEN IF \E i \in 1..Len(SymAt(proc).args) :
                    SymAt(SymAt(proc).args[i]).name = to_lower(info.pass.name)
                 THEN CHOOSE v \in SeqToSet(SymAt(proc).args) :
                          SymAt(v).name = to_lower(info.pass.name)
                 ELSE 0
        ELSE IF SymAt(proc).args = <<>> THEN 0 ELSE SymAt(proc).args[1]

\* the entity v is declared class(t) with t the Struct s or one it extends
ClassOfSelfOrAncestor(v, s) ==
    /\ v # 0
    /\ SymAt(v).type.base = "StructType" /\ ~SymAt(v).type.is_cstruct
    /\ PastExternal(SymAt(v).type_declaration) \in SelfAndAncestors(s)

\* C18: the binding b of the type s, which has no nopass and names a
\* procedure of the module, is accepted exactly when its pass-object formal
\* is declared class(t) with t the Struct s or a Struct that s extends
C18_PassObjectOfClass ==
    (/\ ClassesAdded
     /\ ~has_attribute(rs.class_deferred_procedures, "s", "b", "nopass")
     /\ resolve_symbol(2, rs.class_procedures["s"]["b"].procedure.name) # 0)
        => ("b" \in DOMAIN Tab(SymAt(get_symbol(2, "s")).symtab).scope
               <=> ClassOfSelfOrAncestor(
                       PassObject(resolve_symbol(
                                      2, rs.class_procedures["s"]["b"].procedure.name),
                                  rs.class_procedures["s"]["b"]),
                       get_symbol(2, "s")))

\* the use statement u brings the name n of its module into the scope
\* under that name
Brings(u, n) ==
    IF u.only_present
        THEN \E i \in 1..Len(u.symbols) :
                 /\ to_lower(u.symbols[i].remote_sym) = n
                 /\ u.symbols[i].local_rename = ""
        ELSE u.symbols = <<>>

\* the next item of the AST is a program with two use statements, of two
\* modules in the global scope, that both bring the name n
TwoImportsOf(n) ==
    /\ rs.active /\ pc = "resolve" /\ rs.out = "ok" /\ rs.ast # <<>>
    /\ Head(rs.ast).kind = "Program"
    /\ Len(Head(rs.ast).use) = 2
    /\ Head(rs.ast).use[1].module # Head(rs.ast).use[2].module
    /\ \A i \in 1..2 :
           /\ Brings(Head(rs.ast).use[i], n)
           /\ get_symbol(UnitScope(Head(rs.ast).use[i].module), n) # 0

\* the symbol the name n of the unit's scope stands for
BoundIn(unit, n) == PastExternal(get_symbol(UnitScope(unit), n))

\* the symbol the module's own scope binds to n
OwnSymbol(module, n) == get_symbol(UnitScope(module), n)

\* the visit of the program succeeded
ProgramResolved == rs.out = "ok" /\ UnitScope("p") # 0

\* C12: when the second use statement of a program brings the subroutine f
\* of its module and the first has bound f to another module's f, the visit
\* emits a Warning and leaves f bound to an ExternalSymbol of the second
\* module's f
C12_ShadowWarnsAndRebinds ==
    [][(TwoImportsOf("f") /\ ProgramResolved')
         => /\ rs'.diag.Warning > rs.diag.Warning
            /\ SymAt(get_symbol(UnitScope("p"), "f"))'.kind = "ExternalSymbol"
            /\ BoundIn("p", "f")' = OwnSymbol(Head(rs.ast).use[2].module, "f")'
      ]_vars

\* the constituents of an aggregate, each past its ExternalSymbols
Constituents(ar, g) ==
    [i \in 1..Len(SymOf(ar, g).procs) |->
        ASRUtils_symbol_get_past_external(ar, SymOf(ar, g).procs[i])]

\* C13: when both use statements of a program bring the generic gp of their
\* modules, gp in the program's scope has the constituents of both generics,
\* each exactly once
C13_AggregatesMerged ==
    [][(TwoImportsOf("gp") /\ ProgramResolved')
         => /\ NoDup(Constituents(Arena, BoundIn("p", "gp")))'
            /\ SeqToSet(Constituents(Arena, BoundIn("p", "gp")))'
                   = (SeqToSet(Constituents(Arena, OwnSymbol("a", "gp")))
                      \cup SeqToSet(Constituents(Arena, OwnSymbol("b", "gp"))))
      ]_vars

\* the aggregates of table t: each name with the set of its constituents
AggregateSets(ar, t) ==
    { <<n, SeqToSet(Constituents(ar,
              ASRUtils_symbol_get_past_external(ar, TabOf(ar, t).scope[n])))>> :
        n \in { k \in DOMAIN TabOf(ar, t).scope :
                  SymOf(ar, ASRUtils_symbol_get_past_external(
                                ar, TabOf(ar, t).scope[k])).kind
                      \in {"GenericProcedure", "CustomOperator"} } }

\* the table of the program p in the arena ar
ProgramScope(ar) ==
    SymOf(ar, SymbolTable_get_symbol(ar, GlobalScope, "p")).symtab

\* the visit of the next item with its two use statements in the other order
Swapped ==
    SymbolTableVisitor_visit_ast(
        [rs EXCEPT !.ast = Tail(@)] @@ Arena,
        [Head(rs.ast) EXCEPT !.use = <<@[2], @[1]>>])

\* C14: a program that imports from two modules gets the same aggregate
\* names with the same constituents whichever use statement comes first
C14_ImportOrderIrrelevant ==
    [][(TwoImportsOf("gp") /\ ProgramResolved' /\ Swapped.out = "ok")
         => AggregateSets(Arena, UnitScope("p"))'
                = AggregateSets(Swapped, ProgramScope(Swapped))
      ]_vars

(***************************************************************************)
(* What a unit contains, read off the tree rather than off the walk.       *)
(***************************************************************************)
\* the calls an expression makes when it is visited in scope cur
ExprCalls(cur, e) ==
    IF e.k = "FunctionCall" THEN {[cur |-> cur, name |-> e.v, dims |-> FALSE]}
    ELSE {}

\* the calls the statements of a body make; a BlockCall runs the Block's body
\* in the Block's scope
RECURSIVE StmtCalls(_, _)
StmtCalls(cur, body) ==
    UNION { CASE body[i].k = "SubroutineCall" ->
                     {[cur |-> cur, name |-> body[i].name, dims |-> FALSE]}
              [] body[i].k = "Assignment" ->
                     ExprCalls(cur, body[i].target) \cup ExprCalls(cur, body[i].value)
              [] body[i].k = "BlockCall" ->
                     StmtCalls(SymAt(body[i].m).symtab, SymAt(body[i].m).body)
              [] OTHER -> {} : i \in 1..Len(body) }

\* the calls made by the symbols of table t that are walked as part of the
\* enclosing Function: Variables and Blocks, never a nested Function
RECURSIVE ScopeCalls(_)
ScopeCalls(t) ==
    UNION { LET s == Tab(t).scope[n]
            IN  CASE SymAt(s).kind = "Variable" ->
                         ExprCalls(t, SymAt(s).symbolic_value)
                             \cup ExprCalls(t, SymAt(s).value)
                             \cup (IF SymAt(s).type.dim_call # 0
                                      /\ \E i \in 1..Len(SymAt(s).type.wrap) :
                                             SymAt(s).type.wrap[i] = "Array"
                                       THEN {[cur |-> t,
                                              name |-> SymAt(s).type.dim_call,
                                              dims |-> SymAt(s).intent \in
                                                  {"Out", "InOut", "ReturnVar"}]}
                                       ELSE {})
                  [] SymAt(s).kind \in {"Block", "AssociateBlock"} ->
                         ScopeCalls(SymAt(s).symtab)
                             \cup StmtCalls(SymAt(s).symtab, SymAt(s).body)
                  [] OTHER -> {} : n \in DOMAIN Tab(t).scope }

\* the calls of Function x itself
OwnCalls(x) ==
    ScopeCalls(SymAt(x).symtab) \cup StmtCalls(SymAt(x).symtab, SymAt(x).body)

\* the names Function x depends on: the callees of its own calls that the
\* verifier counts
FunctionDependencies(x) ==
    { symbol_name(c.name) :
        c \in { d \in OwnCalls(x) :
                  \/ pushes_function_dependency(d.cur, d.name)
                  \/ /\ d.dims
                     /\ Tab(temp_scope_of(d.cur, d.name)).counter
                            # Tab(symbol_parent_symtab(d.name)).counter
                     /\ SymAt(d.name).kind # "ExternalSymbol" } }

ReachableFunctions == { x \in ReachableSyms : SymAt(x).kind = "Function" }

\* the table t and its ancestors up to and including the table top
RECURSIVE UpToFunction(_, _)
UpToFunction(t, top) ==
    IF t = 0 THEN {}
    ELSE IF t = top THEN {t}
    ELSE {t} \cup UpToFunction(Tab(t).parent, top)

\* the table of the Function that encloses the table t, 0 where none does
RECURSIVE EnclosingFunction(_)
EnclosingFunction(t) ==
    IF t = 0 \/ Tab(t).owner <= 0 THEN 0
    ELSE IF SymAt(Tab(t).owner).kind = "Function" THEN t
    ELSE EnclosingFunction(Tab(t).parent)

\* the callee's parent table is neither the table cur of the call nor an
\* ancestor of it up to and including the table top of the Function
OutsideEnclosingScopes(cur, name, top) ==
    symbol_parent_symtab(name) \notin UpToFunction(cur, top)

\* C27: a call walked inside a Function joins function_dependencies only if
\* the callee's parent table is neither the table of the call nor an
\* ancestor of it up to and including the table of the Function, and in a
\* walk that ran to its end every such call has joined them, however deep
\* the call is nested in Blocks and AssociateBlocks
C27_DependencyOutsideEnclosingScopes ==
    pc = "done" =>
        /\ \A c \in vres.pushed :
               EnclosingFunction(c.cur) # 0
                   => OutsideEnclosingScopes(c.cur, c.name,
                                             EnclosingFunction(c.cur))
        /\ Accepted =>
               \A x \in ReachableFunctions :
                   \A d \in OwnCalls(x) :
                       OutsideEnclosingScopes(d.cur, d.name, SymAt(x).symtab)
                           => [cur |-> d.cur, name |-> d.name] \in vres.pushed

\* C3: an accepted unit stores, for every Function, exactly the names that
\* Function's own symbols, signature and body make it depend on; the calls
\* of a nested Function count for the nested Function only.
C3_FunctionDependencyEquality ==
    Accepted =>
        \A x \in ReachableFunctions :
            SeqToSet(SymAt(x).deps) = FunctionDependencies(x)

\* an accepted unit in which a Function and the Function nested in it both
\* have dependencies, and different ones
C3_Witness ==
    /\ Accepted
    /\ \E x, y \in ReachableFunctions :
           /\ Tab(SymAt(y).symtab).parent = SymAt(x).symtab
           /\ SymAt(x).deps # <<>>
           /\ SymAt(y).deps # <<>>
           /\ SeqToSet(SymAt(x).deps) # SeqToSet(SymAt(y).deps)

\* the tables of the unit: the TranslationUnit's and those of the reachable
\* table-owning nodes
ReachableTables ==
    {GlobalScope} \cup
    { symbol_symtab(x) : x \in { y \in ReachableSyms : symbol_symtab(y) # 0 } }

RECURSIVE Ancestors(_)
Ancestors(t) == IF t = 0 THEN {} ELSE {t} \cup Ancestors(Tab(t).parent)

\* the scope rule as the specification words it: the table the symbol names
\* as its parent is symtab or an ancestor of it, and maps the symbol's name
\* to the symbol
InScope(symtab, sym) ==
    /\ symbol_parent_symtab(sym) \in Ancestors(symtab)
    /\ get_symbol(symbol_parent_symtab(sym), symbol_name(sym)) = sym

\* C5: whatever 64-bit counters the tables have, each scope check made for a
\* Var succeeds exactly when the symbol's parent table is the current table
\* or an ancestor of it and maps the symbol's name to that symbol.
C5_ScopeCheckExact ==
    pc = "done" =>
        \A c \in vres.chk : c.res = InScope(c.symtab, c.sym)

DuplicateCounters ==
    \E a, b \in ReachableTables : a # b /\ Tab(a).counter = Tab(b).counter

\* C6: a unit in which two distinct reachable table-owning nodes own tables
\* with the same counter is never accepted.
C6_DuplicateCounterRejected ==
    (pc = "done" /\ DuplicateCounters) => asr_verify_result(vres) # "true"

\* the Enum's table has the counter of another table, and asr_verify
\* returned false with an Error
C6_Witness ==
    /\ pc = "done"
    /\ \E x \in ReachableSyms, b \in ReachableTables :
           /\ SymAt(x).kind = "Enum"
           /\ b # SymAt(x).symtab
           /\ Tab(b).counter = Tab(SymAt(x).symtab).counter
    /\ asr_verify_result(vres) = "false"
    /\ vres.nerr > 0

HoldsParentTable ==
    { "Variable", "StructMethodDeclaration", "GenericProcedure",
      "CustomOperator", "ExternalSymbol" }

\* C7: in an accepted unit every parent-table reference of a Variable,
\* StructMethodDeclaration, GenericProcedure, CustomOperator or
\* ExternalSymbol points to a table whose counter the walk collected.
C7_ParentTablesCollected ==
    Accepted =>
        \A x \in ReachableSyms :
            SymAt(x).kind \in HoldsParentTable
                => Tab(SymAt(x).parent_symtab).counter \in vres.ids

\* C2: asr_verify ends in one of two ways: it returns true and has emitted
\* no Error, or it returns false and has emitted at least one Error.
C2_TwoOutcomes ==
    pc = "done" =>
        \/ asr_verify_result(vres) = "true" /\ vres.nerr = 0
        \/ asr_verify_result(vres) = "false" /\ vres.nerr >= 1

\* the Assignments of a body whose target is the Var of v
AssignmentsTo(body, v) ==
    { i \in 1..Len(body) :
        body[i].k = "Assignment" /\ body[i].target.k = "Var"
            /\ body[i].target.v = v }

\* the reachable scopes with a body, each with its body
Bodies ==
    { [scope |-> SymAt(x).symtab, body |-> SymAt(x).body] :
        x \in { y \in ReachableSyms : symbol_symtab(y) # 0 } }

Parameters ==
    { x \in ReachableSyms :
        SymAt(x).kind = "Variable" /\ SymAt(x).storage = "Parameter" }

\* C8: a unit in which some parameter is assigned once in a scope, and none
\* twice, is accepted; a unit in which a parameter is assigned twice in one
\* scope is rejected; a Block entered through a BlockCall is such a scope.
C8_ParameterAssignedOnce ==
    pc = "done" =>
        /\ (/\ \A b \in Bodies, v \in Parameters :
                   Cardinality(AssignmentsTo(b.body, v)) <= 1
            /\ \E b \in Bodies, v \in Parameters :
                   Cardinality(AssignmentsTo(b.body, v)) = 1)
               => asr_verify_result(vres) = "true"
        /\ (\E b \in Bodies, v \in Parameters :
                Cardinality(AssignmentsTo(b.body, v)) >= 2)
               => asr_verify_result(vres) = "false"

\* the calls of the unit, each with its callee and its argument slots
CallSites ==
    UNION { UNION { CASE b.body[i].k = "SubroutineCall" ->
                             {[name |-> b.body[i].name, args |-> b.body[i].args]}
                      [] b.body[i].k = "Assignment"
                             /\ b.body[i].value.k = "FunctionCall" ->
                             {[name |-> b.body[i].value.v,
                               args |-> b.body[i].value.args]}
                      [] OTHER -> {} : i \in 1..Len(b.body) } : b \in Bodies }

\* a formal of the callee that is not optional gets no value from the call
LacksRequiredArgument(c) ==
    LET func == symbol_get_past_external(c.name)
    IN  /\ SymAt(func).kind = "Function"
        /\ \E i \in 1..Len(SymAt(func).args) :
               /\ SymAt(SymAt(func).args[i]).presence # "Optional"
               /\ (i > Len(c.args) \/ c.args[i] = 0)

\* C9: a unit with a call that leaves a non-optional formal of the called
\* Function without a value, by an empty slot or by too few slots, is
\* rejected.
C9_RequiredArgumentsRejected ==
    (pc = "done" /\ \E c \in CallSites : LacksRequiredArgument(c))
        => asr_verify_result(vres) = "false"

ReachableModules == { x \in ReachableSyms : SymAt(x).kind = "Module" }

\* the calls made anywhere inside Module x
ModuleCalls(x) ==
    ScopeCalls(SymAt(x).symtab)
        \cup UNION { OwnCalls(f) :
                       f \in { y \in SymsUnder(SymAt(x).symtab) :
                                 SymAt(y).kind = "Function" } }

\* the module names the calls inside Module x make it depend on
ModuleDependencies(x) ==
    { SymAt(c.name).module_name :
        c \in { d \in ModuleCalls(x) : pushes_module_dependency(d.name) } }
        \ {SymAt(x).name}

ResolvedWithoutError ==
    rs.active /\ rs.result = "unit" /\ rs.diag.Error = 0

\* C1: a unit the resolver returns without an Error diagnostic is accepted
\* by asr_verify in post-link mode.
C1_ResolvedUnitAccepted ==
    (ResolvedWithoutError /\ pc = "done" /\ check_external)
        => asr_verify_result(vres) = "true"

\* C10: no ExternalSymbol the resolver has inserted into a table has an
\* ExternalSymbol as its target.
C10_ExternalTargetNotExternal ==
    rs.active =>
        \A s \in rs.inserted :
            SymAt(SymAt(s).external).kind # "ExternalSymbol"

\* the owner of the table an inserted symbol was put into
InsertedInto(s) == SymAt(Tab(SymAt(s).parent_symtab).owner)

\* a Program that uses one Module has got an ExternalSymbol whose target an
\* ExternalSymbol of that Module's own table has too
C10_Witness ==
    /\ rs.active
    /\ pc = "verify"
    /\ \E s, s0 \in rs.inserted :
           /\ InsertedInto(s).kind = "Program"
           /\ InsertedInto(s0).kind = "Module"
           /\ InsertedInto(s).deps = <<InsertedInto(s0).name>>
           /\ get_symbol(SymAt(s0).parent_symtab, SymAt(s0).name) = s0
           /\ SymAt(s).external = SymAt(s0).external

====
